---- MODULE Spec2Model ----
(***************************************************************************)
(* Range Notation Engine of Pescatarian/ranger.                            *)
(*                                                                         *)
(* services/rangeEngine.js holds two builds of the engine: lines 1-455     *)
(* keep the grid as an object keyed by hand ("keyed" engine), lines        *)
(* 457-994 keep it as a 13x13 array ("array" engine).  Definitions of the  *)
(* array engine carry the suffix Arr; everything else keeps its name.      *)
(*                                                                         *)
(* A JavaScript string is a sequence of one-character strings.  The value  *)
(* undefined, when it is read out of a string or array and concatenated,   *)
(* is the single element "undefined" (never a rank, never a key).          *)
(* A number is a fixed-point integer counting hundredths: 100 is 1.0,      *)
(* 50 is 0.5.                                                              *)
(***************************************************************************)
EXTENDS Integers, Sequences, FiniteSets, TLC

\* engine: the build of services/rangeEngine.js that is loaded
\* grid:   the keyed engine's grid the caller holds
\* agrid:  the array engine's grid the caller holds
\* op:     the function called last
\* arg:    its input (a notation string, a hand, a call record)
\* ret:    what it returned besides a grid
VARIABLES engine, grid, agrid, op, arg, ret

vars == <<engine, grid, agrid, op, arg, ret>>

(***************************************************************************)
(* Constants of the engine                                                 *)
(***************************************************************************)
RANKS == <<"A", "K", "Q", "J", "T", "9", "8", "7", "6", "5", "4", "3", "2">>

SUITS == <<"h", "d", "c", "s">>

TOTAL_COMBOS == 1326

(***************************************************************************)
(* JavaScript string and array primitives                                  *)
(***************************************************************************)
\* s[i], zero-based; undefined outside the string
At(s, i) == IF i \in 0..(Len(s) - 1) THEN s[i + 1] ELSE "undefined"

\* s.indexOf(c): zero-based position of the first c, -1 when absent
indexOf(s, c) ==
  IF \E i \in 1..Len(s) : s[i] = c
  THEN (CHOOSE i \in 1..Len(s) : s[i] = c /\ \A j \in 1..(i - 1) : s[j] # c) - 1
  ELSE -1

includes(s, c) == \E i \in 1..Len(s) : s[i] = c

endsWith(s, c) == Len(s) > 0 /\ s[Len(s)] = c

\* s.slice(from) for 0 <= from
sliceFrom(s, from) == IF from >= Len(s) THEN <<>> ELSE SubSeq(s, from + 1, Len(s))

\* s.slice(0, -1)
dropLast(s) == IF Len(s) = 0 THEN <<>> ELSE SubSeq(s, 1, Len(s) - 1)

RECURSIVE split(_, _)
\* s.split(c) for a one-character separator
split(s, c) ==
  IF ~includes(s, c) THEN <<s>>
  ELSE LET i == indexOf(s, c)
       IN <<SubSeq(s, 1, i)>> \o split(sliceFrom(s, i + 1), c)

\* the white space trim removes (of the characters the inputs carry)
isSpace(c) == c = " " \/ c = "\n" \/ c = "\t"

RECURSIVE trimStart(_)
trimStart(s) == IF Len(s) > 0 /\ isSpace(s[1]) THEN trimStart(Tail(s)) ELSE s

RECURSIVE trimEnd(_)
trimEnd(s) == IF Len(s) > 0 /\ isSpace(s[Len(s)]) THEN trimEnd(dropLast(s)) ELSE s

trim(s) == trimEnd(trimStart(s))

RECURSIVE join(_, _)
\* list.join(sep)
join(list, sep) ==
  IF Len(list) = 0 THEN <<>>
  ELSE IF Len(list) = 1 THEN list[1]
  ELSE list[1] \o sep \o join(Tail(list), sep)

RECURSIVE flatten(_)
\* concatenation of a list of lists
flatten(list) == IF Len(list) = 0 THEN <<>> ELSE list[1] \o flatten(Tail(list))

RECURSIVE filterNonEmpty(_)
\* list.filter(h => h) on a list of strings
filterNonEmpty(list) ==
  IF Len(list) = 0 THEN <<>>
  ELSE IF Len(list[1]) = 0 THEN filterNonEmpty(Tail(list))
  ELSE <<list[1]>> \o filterNonEmpty(Tail(list))

toUpperCase(c) ==
  CASE c = "a" -> "A" [] c = "k" -> "K" [] c = "q" -> "Q" [] c = "j" -> "J"
    [] c = "t" -> "T" [] c = "s" -> "S" [] c = "o" -> "O" [] c = "x" -> "X"
    [] c = "h" -> "H" [] c = "d" -> "D" [] c = "c" -> "C"
    [] OTHER -> c

toLowerCase(c) ==
  CASE c = "A" -> "a" [] c = "K" -> "k" [] c = "Q" -> "q" [] c = "J" -> "j"
    [] c = "T" -> "t" [] c = "S" -> "s" [] c = "O" -> "o" [] c = "X" -> "x"
    [] c = "H" -> "h" [] c = "D" -> "d" [] c = "C" -> "c"
    [] OTHER -> c

upperAll(s) == [i \in 1..Len(s) |-> toUpperCase(s[i])]

DIGITS == <<"0", "1", "2", "3", "4", "5", "6", "7", "8", "9">>

isDigit(c) == includes(DIGITS, c)

RECURSIVE digitsPrefix(_)
\* the longest prefix of s made of digits
digitsPrefix(s) ==
  IF Len(s) > 0 /\ isDigit(s[1]) THEN <<s[1]>> \o digitsPrefix(Tail(s)) ELSE <<>>

RECURSIVE digitsValue(_)
digitsValue(d) ==
  IF Len(d) = 0 THEN 0 ELSE 10 * digitsValue(dropLast(d)) + indexOf(DIGITS, d[Len(d)])

\* parseFloat(s): leading blanks, a sign, digits, a point and digits; the
\* longest such prefix.  The result is [nan |-> TRUE] when the prefix holds
\* no digit, else [nan |-> FALSE, val |-> hundredths].  Fraction digits
\* after the second are cut (the inputs carry at most two).
parseFloat(s) ==
  LET t == trimStart(s)
      neg == Len(t) > 0 /\ t[1] = "-"
      u == IF Len(t) > 0 /\ (t[1] = "-" \/ t[1] = "+") THEN Tail(t) ELSE t
      ip == digitsPrefix(u)
      r == sliceFrom(u, Len(ip))
      fp == IF Len(r) > 0 /\ r[1] = "." THEN digitsPrefix(Tail(r)) ELSE <<>>
      f1 == IF Len(fp) >= 1 THEN indexOf(DIGITS, fp[1]) ELSE 0
      f2 == IF Len(fp) >= 2 THEN indexOf(DIGITS, fp[2]) ELSE 0
      mag == 100 * digitsValue(ip) + 10 * f1 + f2
  IN IF Len(ip) = 0 /\ Len(fp) = 0 THEN [nan |-> TRUE, val |-> 0]
     ELSE [nan |-> FALSE, val |-> IF neg THEN 0 - mag ELSE mag]

RECURSIVE natToString(_)
natToString(n) ==
  IF n < 10 THEN <<DIGITS[n + 1]>>
  ELSE natToString(n \div 10) \o <<DIGITS[(n % 10) + 1]>>

\* String(x) for a number in hundredths: 50 is "0.5", 125 is "1.25", 100 is "1"
numberToString(x) ==
  LET m == IF x < 0 THEN 0 - x ELSE x
      frac == m % 100
      fs == IF frac = 0 THEN <<>>
            ELSE IF frac % 10 = 0 THEN <<".", DIGITS[(frac \div 10) + 1]>>
            ELSE <<".", DIGITS[(frac \div 10) + 1], DIGITS[(frac % 10) + 1]>>
  IN (IF x < 0 THEN <<"-">> ELSE <<>>) \o natToString(m \div 100) \o fs

\* parseFloat(s) || 1: NaN and 0 are falsy
parseFloatOrOne(s) ==
  LET f == parseFloat(s) IN IF f.nan \/ f.val = 0 THEN 100 ELSE f.val

\* w || 1 for a stored weight
orOne(w) == IF w = 0 THEN 100 ELSE w

\* the integers a, a+1, .., b-1: the loop stops one step early
rangeExclusive(a, b) == [n \in 1..(b - a) |-> a + n - 1]

\* the integers a, a+1, .., b in order (empty when b < a)
range(a, b) == [n \in 1..(b - a + 1) |-> a + n - 1]

\* Math.round(n / d) for d > 0: halves round up
roundDiv(n, d) == (2 * n + d) \div (2 * d)

min(a, b) == IF a < b THEN a ELSE b

max(a, b) == IF a > b THEN a ELSE b

(***************************************************************************)
(* Keyed engine: createRangeGrid                                           *)
(***************************************************************************)
\* a loop body that keys the offsuit hand by the rank of its row first
gridCellRowFirst(i, j) ==
  LET rank1 == At(RANKS, i)
      rank2 == At(RANKS, j)
      handKey == IF i = j THEN <<rank1, rank2>>
                 ELSE IF i < j THEN <<rank1, rank2, "s">>
                 ELSE <<rank1, rank2, "o">>
      handType == IF i = j THEN "pair" ELSE IF i < j THEN "suited" ELSE "offsuit"
      numCombos == IF i = j THEN 6 ELSE IF i < j THEN 4 ELSE 12
  IN [key |-> handKey,
      rank1 |-> IF i < j THEN rank1 ELSE rank2,
      rank2 |-> IF i < j THEN rank2 ELSE rank1,
      type |-> handType,
      combos |-> numCombos,
      selected |-> FALSE,
      weight |-> 0,
      row |-> i,
      col |-> j]

\* the cell the loop body builds for (i, j)
gridCell(i, j) ==
  LET rank1 == At(RANKS, i)
      rank2 == At(RANKS, j)
      handKey == IF i = j THEN <<rank1, rank2>>
                 ELSE IF i < j THEN <<rank1, rank2, "s">>
                 ELSE <<rank2, rank1, "o">>
      handType == IF i = j THEN "pair" ELSE IF i < j THEN "suited" ELSE "offsuit"
      numCombos == IF i = j THEN 6 ELSE IF i < j THEN 4 ELSE 12
  IN [key |-> handKey,
      rank1 |-> IF i < j THEN rank1 ELSE rank2,
      rank2 |-> IF i < j THEN rank2 ELSE rank1,
      type |-> handType,
      combos |-> numCombos,
      selected |-> FALSE,
      weight |-> 0,
      row |-> i,
      col |-> j]

\* the keys in the order of insertion (row by row)
insertionOrder ==
  [n \in 1..(Len(RANKS) * Len(RANKS)) |->
     gridCell((n - 1) \div Len(RANKS), (n - 1) % Len(RANKS)).key]

createRangeGrid ==
  LET n == Len(RANKS) * Len(RANKS)
      last(k) == CHOOSE m \in 1..n :
                   /\ insertionOrder[m] = k
                   /\ \A m2 \in (m + 1)..n : insertionOrder[m2] # k
  IN [k \in {insertionOrder[m] : m \in 1..n} |->
        gridCell((last(k) - 1) \div Len(RANKS), (last(k) - 1) % Len(RANKS))]

\* a key that is a canonical array index ("22" .. "99"): JavaScript lists
\* such keys first, in ascending numeric order, before the other keys
isIndexKey(k) == \A i \in 1..Len(k) : isDigit(k[i])

RECURSIVE reverse(_)
reverse(list) == IF Len(list) = 0 THEN <<>> ELSE reverse(Tail(list)) \o <<list[1]>>

\* Object.keys of a grid built by createRangeGrid: 22, 33, .., 99 and then
\* the other keys in insertion order (the pairs are inserted AA first, so the
\* digit pairs ascend when their insertion order is reversed)
keyOrder ==
  LET NotIndexKey(k) == ~isIndexKey(k)
  IN reverse(SelectSeq(insertionOrder, isIndexKey))
       \o SelectSeq(insertionOrder, NotIndexKey)

\* Object.values(grid): the cells of g in key order (no operation adds a key)
objectValues(g) == [n \in 1..Len(keyOrder) |-> g[keyOrder[n]]]

(***************************************************************************)
(* Keyed engine: expandShorthand                                           *)
(***************************************************************************)
\* the combo string rank1 + suit1 + rank2 + suit2
combo(rank1, suit1, rank2, suit2) == <<rank1, suit1, rank2, suit2>>

\* a single loop over SUITS: each suit with itself
suitLoopSame == [n \in 1..Len(SUITS) |-> <<At(SUITS, n - 1), At(SUITS, n - 1)>>]

\* the pairs <<suit1, suit2>> of a double loop over SUITS, in loop order
suitLoop ==
  [n \in 1..(Len(SUITS) * Len(SUITS)) |->
     <<At(SUITS, (n - 1) \div Len(SUITS)), At(SUITS, (n - 1) % Len(SUITS))>>]

\* suit1 >= suit2 on the suit letters: c < d < h < s
suitGE(suit1, suit2) ==
  LET abc == <<"c", "d", "h", "s">> IN indexOf(abc, suit1) >= indexOf(abc, suit2)

\* rank1 + suit1 + rank2 + suit2 for each suit pair of a list
combosOf(rank1, rank2, suitPairs) ==
  [n \in 1..Len(suitPairs) |-> combo(rank1, suitPairs[n][1], rank2, suitPairs[n][2])]

expandShorthand(hand) ==
  IF Len(hand) # 2 /\ Len(hand) # 3 THEN <<>>
  ELSE LET rank1 == At(hand, 0)
           rank2 == At(hand, 1)
           \* null for two characters, else hand[2] === 's'
           suited == IF Len(hand) = 2 THEN "null"
                     ELSE IF At(hand, 2) = "s" THEN "true" ELSE "false"
           \* for i, for j = i + 1
           Upper(p) == indexOf(SUITS, p[1]) < indexOf(SUITS, p[2])
           Same(p) == p[1] = p[2]
           Differ(p) == p[1] # p[2]
           Ambiguous(p) == ~(rank1 = rank2 /\ suitGE(p[1], p[2]))
       IN IF rank1 = rank2 THEN combosOf(rank1, rank2, SelectSeq(suitLoop, Upper))
          ELSE IF suited = "true"
               THEN combosOf(rank1, rank2, SelectSeq(suitLoop, Same))
          ELSE IF suited = "false"
               THEN combosOf(rank1, rank2, SelectSeq(suitLoop, Differ))
          ELSE combosOf(rank1, rank2, SelectSeq(suitLoop, Ambiguous))

(***************************************************************************)
(* Keyed engine: calculateRangeStats                                       *)
(***************************************************************************)
\* the cells the loop over Object.values(g) finds selected, in order
selectedCells(g) ==
  LET IsSelected(c) == c.selected IN SelectSeq(objectValues(g), IsSelected)

RECURSIVE sum(_)
\* the sum of a list of numbers (added up by halves)
sum(list) ==
  IF Len(list) = 0 THEN 0
  ELSE IF Len(list) = 1 THEN list[1]
  ELSE LET half == Len(list) \div 2
       IN sum(SubSeq(list, 1, half)) + sum(SubSeq(list, half + 1, Len(list)))

\* weightedCombos is in hundredths of a combo, percentage and handsPercentage
\* in tenths of a percent
calculateRangeStats(g) ==
  LET cells == selectedCells(g)
      selectedHands == Len(cells)
      selectedCombos == sum([n \in 1..Len(cells) |-> cells[n].combos])
      weightedCombos == sum([n \in 1..Len(cells) |->
                               cells[n].combos * orOne(cells[n].weight)])
  IN [selectedHands |-> selectedHands,
      selectedCombos |-> selectedCombos,
      weightedCombos |-> weightedCombos,
      totalHands |-> 169,
      totalCombos |-> TOTAL_COMBOS,
      percentage |-> roundDiv(weightedCombos * 10, TOTAL_COMBOS),
      handsPercentage |-> roundDiv(selectedHands * 1000, 169)]

(***************************************************************************)
(* Keyed engine: the notation parser                                       *)
(***************************************************************************)
expandRangeNotation(rng) ==
  LET parts == split(rng, "-")
      start == trim(parts[1])
      end == trim(parts[2])
      startRank1 == At(start, 0)
      startRank2 == At(start, 1)
      endRank1 == At(end, 0)
      endRank2 == At(end, 1)
      startIdx1 == indexOf(RANKS, startRank1)
      startIdx2 == indexOf(RANKS, startRank2)
      endIdx1 == indexOf(RANKS, endRank1)
      endIdx2 == indexOf(RANKS, endRank2)
      suited == IF endsWith(start, "s") THEN <<"s">>
                ELSE IF endsWith(start, "o") THEN <<"o">> ELSE <<>>
      pairIdx == range(min(startIdx1, endIdx1), max(startIdx1, endIdx1))
      lowIdx == range(min(startIdx2, endIdx2), max(startIdx2, endIdx2))
  IN IF Len(parts) # 2 THEN <<>>
     ELSE IF startRank1 = startRank2 /\ endRank1 = endRank2
          THEN [n \in 1..Len(pairIdx) |->
                  <<At(RANKS, pairIdx[n]), At(RANKS, pairIdx[n])>>]
     ELSE IF startRank1 = endRank1
          THEN [n \in 1..Len(lowIdx) |->
                  <<startRank1, At(RANKS, lowIdx[n])>> \o suited]
     ELSE <<>>

\* a plus that runs from the low rank down to the deuce
expandPlusNotationDown(hand) ==
  LET rank1 == At(hand, 0)
      rank2 == At(hand, 1)
      suited == IF Len(hand) > 2 THEN <<At(hand, 2)>> ELSE <<>>
      idx1 == indexOf(RANKS, rank1)
      idx2 == indexOf(RANKS, rank2)
      pairIdx == range(0, idx1)
      lowIdx == range(idx2, Len(RANKS) - 1)
  IN IF rank1 = rank2
     THEN [n \in 1..Len(pairIdx) |->
             <<At(RANKS, pairIdx[n]), At(RANKS, pairIdx[n])>>]
     ELSE [n \in 1..Len(lowIdx) |-> <<rank1, At(RANKS, lowIdx[n])>> \o suited]

expandPlusNotation(hand) ==
  LET rank1 == At(hand, 0)
      rank2 == At(hand, 1)
      suited == IF Len(hand) > 2 THEN <<At(hand, 2)>> ELSE <<>>
      idx1 == indexOf(RANKS, rank1)
      idx2 == indexOf(RANKS, rank2)
      pairIdx == range(0, idx1)
      lowIdx == range(idx1 + 1, idx2)
  IN IF rank1 = rank2
     THEN [n \in 1..Len(pairIdx) |->
             <<At(RANKS, pairIdx[n]), At(RANKS, pairIdx[n])>>]
     ELSE [n \in 1..Len(lowIdx) |-> <<rank1, At(RANKS, lowIdx[n])>> \o suited]

normalizeHandNotation(hand) ==
  IF Len(hand) < 2 THEN hand
  ELSE LET rank1 == toUpperCase(At(hand, 0))
           rank2 == toUpperCase(At(hand, 1))
           suffix == IF Len(hand) > 2 THEN <<toLowerCase(At(hand, 2))>> ELSE <<>>
           idx1 == indexOf(RANKS, rank1)
           idx2 == indexOf(RANKS, rank2)
       IN IF rank1 = rank2 THEN <<rank1, rank2>>
          ELSE IF idx1 < idx2 THEN <<rank1, rank2>> \o suffix
          ELSE <<rank2, rank1>> \o suffix

\* if (grid[h]) { grid[h].selected = true; grid[h].weight = weight; }
markHand(g, h, weight) ==
  IF h \in DOMAIN g
  THEN [g EXCEPT ![h] = [@ EXCEPT !.selected = TRUE, !.weight = weight]]
  ELSE g

RECURSIVE markHands(_, _, _)
\* the loop over expandedHands
markHands(g, hs, weight) ==
  IF Len(hs) = 0 THEN g
  ELSE markHands(markHand(g, hs[1], weight), Tail(hs), weight)

\* one turn of the loop over the tokens
parseToken(g, token) ==
  LET parts == split(token, ":")
      hand == IF includes(token, ":") THEN parts[1] ELSE token
      weight == IF includes(token, ":")
                THEN parseFloatOrOne(IF Len(parts) > 1 THEN parts[2] ELSE <<>>)
                ELSE 100
  IN IF includes(hand, "-") THEN markHands(g, expandRangeNotation(hand), weight)
     ELSE IF endsWith(hand, "+")
          THEN markHands(g, expandPlusNotation(dropLast(hand)), weight)
     ELSE markHand(g, normalizeHandNotation(hand), weight)

RECURSIVE parseTokens(_, _)
parseTokens(g, hands) ==
  IF Len(hands) = 0 THEN g
  ELSE parseTokens(parseToken(g, hands[1]), Tail(hands))

\* the text taken as one token, not split at the commas
tokensOfUnsplit(rangeText) == filterNonEmpty(<<trim(rangeText)>>)

\* rangeText.split(',').map(h => h.trim()).filter(h => h)
tokensOf(rangeText) ==
  LET raw == split(rangeText, ",")
  IN filterNonEmpty([n \in 1..Len(raw) |-> trim(raw[n])])

\* a parser that keeps the selections of the grid it is given
keepSelections(g) == g

\* the loop that resets all selections
resetGrid(g) ==
  [k \in DOMAIN g |-> [g[k] EXCEPT !.selected = FALSE, !.weight = 0]]

parseRangeNotation(rangeText, g) ==
  IF Len(trim(rangeText)) = 0 THEN resetGrid(g)
  ELSE parseTokens(resetGrid(g), tokensOf(rangeText))

(***************************************************************************)
(* Keyed engine: gridToRangeNotation, toggleCell, convertRangeFormat       *)
(***************************************************************************)
\* hand.key, or `${hand.key}:${hand.weight}` when the weight is truthy and not 1
weightedKey(c) ==
  IF c.weight # 0 /\ c.weight # 100
  THEN c.key \o <<":">> \o numberToString(c.weight)
  ELSE c.key

\* the comparator's value of one entry: index of the first rank times 13 plus
\* index of the second
sortRank(entry) ==
  LET hand == split(entry, ":")[1]
  IN indexOf(RANKS, At(hand, 0)) * 13 + indexOf(RANKS, At(hand, 1))

RECURSIVE insertSorted(_, _)
\* e put into the sorted list after every entry that does not compare greater
insertSorted(sorted, e) ==
  IF Len(sorted) = 0 THEN <<e>>
  ELSE IF sortRank(sorted[1]) <= sortRank(e)
       THEN <<sorted[1]>> \o insertSorted(Tail(sorted), e)
       ELSE <<e>> \o sorted

RECURSIVE sortEntries(_)
\* Array.prototype.sort with the comparator rankA - rankB (a stable sort)
sortEntries(list) ==
  IF Len(list) = 0 THEN <<>>
  ELSE insertSorted(sortEntries(dropLast(list)), list[Len(list)])

gridToRangeNotation(g) ==
  LET cells == selectedCells(g)
  IN join(sortEntries([n \in 1..Len(cells) |-> weightedKey(cells[n])]), <<",">>)

toggleCell(g, handKey, selected, weight) ==
  IF handKey \in DOMAIN g
  THEN [g EXCEPT ![handKey] = [@ EXCEPT !.selected = selected, !.weight = weight]]
  ELSE g

gridToFlopzillaFormat(g) ==
  LET cells == selectedCells(g)
  IN join([n \in 1..Len(cells) |-> cells[n].key], <<",", " ">>)

gridToGTOwFormat(g) ==
  LET cells == selectedCells(g)
  IN join([n \in 1..Len(cells) |-> weightedKey(cells[n])], <<",">>)

convertRangeFormat(rangeText, fromFormat, toFormat) ==
  LET g == parseRangeNotation(rangeText, createRangeGrid)
  IN IF toFormat = "flopzilla" THEN gridToFlopzillaFormat(g)
     ELSE IF toFormat = "gtow" \/ toFormat = "pio" THEN gridToGTOwFormat(g)
     ELSE gridToRangeNotation(g)

(***************************************************************************)
(* Array engine: createRangeGrid, expandShorthand                          *)
(***************************************************************************)
\* a cell whose combos count does not depend on its type
gridCellArrSix(i, j) ==
  LET rank1 == At(RANKS, i)
      rank2 == At(RANKS, j)
  IN [hand |-> IF i = j THEN <<rank1, rank2>>
               ELSE IF i < j THEN <<rank1, rank2, "s">>
               ELSE <<rank2, rank1, "o">>,
      type |-> IF i = j THEN "pair" ELSE IF i < j THEN "suited" ELSE "offsuit",
      combos |-> 6,
      selected |-> FALSE,
      weight |-> 0]

gridCellArr(i, j) ==
  LET rank1 == At(RANKS, i)
      rank2 == At(RANKS, j)
  IN [hand |-> IF i = j THEN <<rank1, rank2>>
               ELSE IF i < j THEN <<rank1, rank2, "s">>
               ELSE <<rank2, rank1, "o">>,
      type |-> IF i = j THEN "pair" ELSE IF i < j THEN "suited" ELSE "offsuit",
      combos |-> IF i = j THEN 6 ELSE IF i < j THEN 4 ELSE 12,
      selected |-> FALSE,
      weight |-> 0]

\* grid[i][j] of the source is g[i + 1][j + 1]
createRangeGridArr == [i \in 1..13 |-> [j \in 1..13 |-> gridCellArr(i - 1, j - 1)]]

expandShorthandArr(hand) ==
  IF Len(hand) < 2 THEN <<>>
  ELSE LET rank1 == toUpperCase(At(hand, 0))
           rank2 == toUpperCase(At(hand, 1))
           modifier == IF Len(hand) > 2 THEN toLowerCase(At(hand, 2)) ELSE "null"
           Upper(p) == indexOf(SUITS, p[1]) < indexOf(SUITS, p[2])
           Same(p) == p[1] = p[2]
           Differ(p) == p[1] # p[2]
       IN IF ~includes(RANKS, rank1) \/ ~includes(RANKS, rank2) THEN <<>>
          ELSE IF rank1 = rank2 THEN combosOf(rank1, rank2, SelectSeq(suitLoop, Upper))
          ELSE IF modifier = "s" THEN combosOf(rank1, rank2, SelectSeq(suitLoop, Same))
          ELSE IF modifier = "o"
               THEN combosOf(rank1, rank2, SelectSeq(suitLoop, Differ))
          ELSE combosOf(rank1, rank2, suitLoop)

(***************************************************************************)
(* Array engine: the notation parser                                       *)
(***************************************************************************)
\* grid[row][col].selected = true; grid[row][col].weight = 1
markCellArr(g, row, col) ==
  [g EXCEPT ![row + 1][col + 1] = [@ EXCEPT !.selected = TRUE, !.weight = 100]]

\* as markHandInGrid, with every non-pair hand marked above the diagonal
markHandInGridUpper(g, hand) ==
  IF Len(hand) < 2 THEN g
  ELSE LET i == indexOf(RANKS, toUpperCase(At(hand, 0)))
           j == indexOf(RANKS, toUpperCase(At(hand, 1)))
       IN IF i = -1 \/ j = -1 THEN g
          ELSE markCellArr(g, min(i, j), max(i, j))

markHandInGrid(g, hand) ==
  IF Len(hand) < 2 THEN g
  ELSE LET rank1 == toUpperCase(At(hand, 0))
           rank2 == toUpperCase(At(hand, 1))
           modifier == IF Len(hand) > 2 THEN toLowerCase(At(hand, 2)) ELSE "null"
           i == indexOf(RANKS, rank1)
           j == indexOf(RANKS, rank2)
       IN IF i = -1 \/ j = -1 THEN g
          ELSE IF i = j THEN markCellArr(g, i, j)
          ELSE IF modifier = "s" THEN markCellArr(g, min(i, j), max(i, j))
          ELSE IF modifier = "o" THEN markCellArr(g, max(i, j), min(i, j))
          ELSE markCellArr(markCellArr(g, min(i, j), max(i, j)), max(i, j), min(i, j))

RECURSIVE markHandsArr(_, _)
\* for (const eh of expandedHands) markHandInGrid(grid, eh)
markHandsArr(g, hs) ==
  IF Len(hs) = 0 THEN g ELSE markHandsArr(markHandInGrid(g, hs[1]), Tail(hs))

\* the integers a, a-1, .., b+1: the loop stops one step early
rangeDownExclusive(a, b) == [n \in 1..(a - b) |-> a - n + 1]

\* the integers a, a-1, .., b in order (empty when a < b)
rangeDown(a, b) == [n \in 1..(a - b + 1) |-> a - n + 1]

\* hand[0].toUpperCase() or hand[1].toUpperCase() on undefined: a TypeError
expandRangePlusThrows(hand) == Len(hand) < 2

expandRangePlus(hand) ==
  LET rank1 == toUpperCase(At(hand, 0))
      rank2 == toUpperCase(At(hand, 1))
      modifier == IF Len(hand) > 2 THEN <<toLowerCase(At(hand, 2))>> ELSE <<>>
      idx1 == indexOf(RANKS, rank1)
      idx2 == indexOf(RANKS, rank2)
      pairIdx == rangeDown(idx1, 0)
      higherRank == At(RANKS, min(idx1, idx2))
      lowIdx == rangeDown(max(idx1, idx2), min(idx1, idx2) + 1)
  IN IF idx1 = idx2
     THEN [n \in 1..Len(pairIdx) |->
             <<At(RANKS, pairIdx[n]), At(RANKS, pairIdx[n])>>]
     ELSE [n \in 1..Len(lowIdx) |->
             <<higherRank, At(RANKS, lowIdx[n])>> \o modifier]

\* const [start, end] = range.split('-'): the first two parts, undefined
\* (here the empty string, falsy alike) when there are fewer
dashStart(rng) == split(rng, "-")[1]

dashEnd(rng) == LET parts == split(rng, "-") IN IF Len(parts) > 1 THEN parts[2] ELSE <<>>

\* start[1].toUpperCase() or end[1].toUpperCase() on undefined: a TypeError
expandRangeDashThrows(rng) ==
  /\ Len(dashStart(rng)) > 0
  /\ Len(dashEnd(rng)) > 0
  /\ (Len(dashStart(rng)) < 2 \/ Len(dashEnd(rng)) < 2)

expandRangeDash(rng) ==
  LET start == dashStart(rng)
      end == dashEnd(rng)
      rank1Start == toUpperCase(At(start, 0))
      rank2Start == toUpperCase(At(start, 1))
      rank1End == toUpperCase(At(end, 0))
      rank2End == toUpperCase(At(end, 1))
      modifier == IF Len(start) > 2 THEN <<toLowerCase(At(start, 2))>> ELSE <<>>
      idx1 == indexOf(RANKS, rank1Start)
      idx2Start == indexOf(RANKS, rank2Start)
      idx2End == indexOf(RANKS, rank2End)
      startPair == indexOf(RANKS, rank1Start)
      endPair == indexOf(RANKS, rank1End)
      pairIdx == range(min(startPair, endPair), max(startPair, endPair))
      NotHigh(i) == i # idx1
      lowIdx == SelectSeq(range(min(idx2Start, idx2End), max(idx2Start, idx2End)),
                          NotHigh)
  IN IF Len(start) = 0 \/ Len(end) = 0 THEN <<>>
     ELSE IF rank1Start = rank2Start /\ rank1End = rank2End
          THEN [n \in 1..Len(pairIdx) |->
                  <<At(RANKS, pairIdx[n]), At(RANKS, pairIdx[n])>>]
     ELSE [n \in 1..Len(lowIdx) |->
             <<rank1Start, At(RANKS, lowIdx[n])>> \o modifier]

\* hand.replace('+', ''): the first '+' removed
removeFirstPlus(hand) ==
  LET i == indexOf(hand, "+")
  IN IF i = -1 THEN hand ELSE SubSeq(hand, 1, i) \o sliceFrom(hand, i + 1)

\* one turn of the loop over the tokens; r is [grid, threw]
parseTokenArr(r, hand) ==
  IF r.threw \/ Len(hand) = 0 THEN r
  ELSE IF includes(hand, "+")
       THEN IF expandRangePlusThrows(removeFirstPlus(hand))
            THEN [r EXCEPT !.threw = TRUE]
            ELSE [r EXCEPT !.grid = markHandsArr(@, expandRangePlus(removeFirstPlus(hand)))]
  ELSE IF includes(hand, "-")
       THEN IF expandRangeDashThrows(hand)
            THEN [r EXCEPT !.threw = TRUE]
            ELSE [r EXCEPT !.grid = markHandsArr(@, expandRangeDash(hand))]
  ELSE [r EXCEPT !.grid = markHandInGrid(@, hand)]

RECURSIVE parseTokensArr(_, _)
parseTokensArr(r, hands) ==
  IF Len(hands) = 0 THEN r
  ELSE parseTokensArr(parseTokenArr(r, hands[1]), Tail(hands))

\* notation.split(',').map(h => h.trim().toUpperCase())
tokensOfArr(notation) ==
  LET raw == split(notation, ",")
  IN [n \in 1..Len(raw) |-> upperAll(trim(raw[n]))]

\* the grid returned, or threw = TRUE when a TypeError leaves the function
\* (the grid built so far is then lost to the caller)
parseRangeNotationArr(notation) ==
  IF Len(trim(notation)) = 0 THEN [grid |-> createRangeGridArr, threw |-> FALSE]
  ELSE parseTokensArr([grid |-> createRangeGridArr, threw |-> FALSE],
                      tokensOfArr(notation))

(***************************************************************************)
(* Array engine: toggleCell, calculateRangeStats, gridToRangeNotation      *)
(***************************************************************************)
\* as toggleCell, with coordinates outside the grid moved to its edge
toggleCellArrClamped(g, row, col, selected) ==
  LET r == IF row < 0 THEN 0 ELSE IF row > 12 THEN 12 ELSE row
      c == IF col < 0 THEN 0 ELSE IF col > 12 THEN 12 ELSE col
      now == IF selected = "null" THEN ~g[r + 1][c + 1].selected
             ELSE selected = "true"
  IN [g EXCEPT ![r + 1][c + 1] =
        [@ EXCEPT !.selected = now, !.weight = IF now THEN 100 ELSE 0]]

\* selected is "null" when the argument is omitted, else a boolean
toggleCellArr(g, row, col, selected) ==
  IF row >= 0 /\ row < 13 /\ col >= 0 /\ col < 13
  THEN LET now == IF selected = "null" THEN ~g[row + 1][col + 1].selected
                  ELSE selected = "true"
       IN [g EXCEPT ![row + 1][col + 1] =
             [@ EXCEPT !.selected = now, !.weight = IF now THEN 100 ELSE 0]]
  ELSE g

\* the cells of the double loop over i and j, in loop order
cellsArr(g) == flatten(g)

selectedCellsArr(g) ==
  LET IsSelected(c) == c.selected IN SelectSeq(cellsArr(g), IsSelected)

\* the breakdown entry of one type; combos in hundredths
breakdownArr(g, type) ==
  LET OfType(c) == c.type = type
      all == SelectSeq(cellsArr(g), OfType)
      chosen == SelectSeq(selectedCellsArr(g), OfType)
  IN [selected |-> Len(chosen),
      total |-> Len(all),
      combos |-> sum([n \in 1..Len(chosen) |->
                        chosen[n].combos * orOne(chosen[n].weight)])]

\* selectedCombos is Math.round of the weighted sum; percentage is in tenths
\* of a percent
calculateRangeStatsArr(g) ==
  LET cells == selectedCellsArr(g)
      weighted == sum([n \in 1..Len(cells) |->
                         cells[n].combos * orOne(cells[n].weight)])
  IN [selectedHands |-> Len(cells),
      selectedCombos |-> roundDiv(weighted, 100),
      totalCombos |-> TOTAL_COMBOS,
      percentage |-> roundDiv(weighted * 10, TOTAL_COMBOS),
      breakdown |-> [pairs |-> breakdownArr(g, "pair"),
                     suited |-> breakdownArr(g, "suited"),
                     offsuit |-> breakdownArr(g, "offsuit")]]

gridToRangeNotationArr(g) ==
  LET cells == selectedCellsArr(g)
  IN join([n \in 1..Len(cells) |-> cells[n].hand], <<",">>)

(***************************************************************************)
(* Array engine: gtowToFlopzilla, flopzillaToGtow, convertRangeFormat      *)
(***************************************************************************)
\* the shorthand of one token of four or more characters; <<>> when a rank
\* is not recognised (the token is skipped)
shorthandOfCombo(hand) ==
  LET rank1 == toUpperCase(At(hand, 0))
      suit1 == toLowerCase(At(hand, 1))
      rank2 == toUpperCase(At(hand, 2))
      suit2 == toLowerCase(At(hand, 3))
      idx1 == indexOf(RANKS, rank1)
      idx2 == indexOf(RANKS, rank2)
      highRank == IF idx1 < idx2 THEN rank1 ELSE rank2
      lowRank == IF idx1 < idx2 THEN rank2 ELSE rank1
  IN IF ~includes(RANKS, rank1) \/ ~includes(RANKS, rank2) THEN <<>>
     ELSE IF rank1 = rank2 THEN <<rank1, rank2>>
     ELSE IF suit1 = suit2 THEN <<highRank, lowRank, "s">>
     ELSE <<highRank, lowRank, "o">>

RECURSIVE handMapKeys(_, _)
\* the keys of handMap, in insertion order, after the loop over hands has
\* run from the keys so far
handMapKeys(keys, hands) ==
  IF Len(hands) = 0 THEN keys
  ELSE LET hand == hands[1]
           skipped == Len(hand) >= 4 /\ shorthandOfCombo(hand) = <<>>
           key == IF Len(hand) < 4 THEN hand ELSE shorthandOfCombo(hand)
       IN IF skipped \/ includes(keys, key) THEN handMapKeys(keys, Tail(hands))
          ELSE handMapKeys(keys \o <<key>>, Tail(hands))

\* range.split(',').map(h => h.trim())
trimmedParts(rng) ==
  LET raw == split(rng, ",") IN [n \in 1..Len(raw) |-> trim(raw[n])]

gtowToFlopzilla(rng) ==
  IF Len(trim(rng)) = 0 THEN <<>>
  ELSE join(handMapKeys(<<>>, trimmedParts(rng)), <<",">>)

flopzillaToGtow(rng) ==
  IF Len(trim(rng)) = 0 THEN <<>>
  ELSE LET hands == trimmedParts(rng)
       IN join(flatten([n \in 1..Len(hands) |-> expandShorthandArr(hands[n])]),
               <<",">>)

convertRangeFormatArr(rng, from, to) ==
  IF Len(trim(rng)) = 0 THEN <<>>
  ELSE IF from = to THEN rng
  ELSE IF from = "gtow" /\ to = "flopzilla" THEN gtowToFlopzilla(rng)
  ELSE IF from = "flopzilla" /\ to = "gtow" THEN flopzillaToGtow(rng)
  ELSE rng

(***************************************************************************)
(* RangeFormatConverter                                                    *)
(***************************************************************************)
\* const ranks = '23456789TJQKA'
ranks == <<"2", "3", "4", "5", "6", "7", "8", "9", "T", "J", "Q", "K", "A">>

\* [2-9TJQKA]
isRankChar(c) == includes(ranks, c)

\* [cdhs]
isSuitChar(c) == c \in {"c", "d", "h", "s"}

\* s.startsWith(prefix)
startsWith(s, prefix) ==
  Len(prefix) <= Len(s) /\ SubSeq(s, 1, Len(prefix)) = prefix

\* what \d+\.?\d* matches at the zero-based position p (greedy), or the
\* empty string when no digit stands there
numberAt(text, p) ==
  LET intPart == digitsPrefix(sliceFrom(text, p))
      hasDot == At(text, p + Len(intPart)) = "."
      frac == IF hasDot THEN digitsPrefix(sliceFrom(text, p + Len(intPart) + 1))
              ELSE <<>>
  IN IF Len(intPart) = 0 THEN <<>>
     ELSE intPart \o (IF hasDot THEN <<".">> ELSE <<>>) \o frac

\* handRegex matches at the zero-based position p
handAt(text, p) ==
  /\ isRankChar(At(text, p))
  /\ isSuitChar(At(text, p + 1))
  /\ isRankChar(At(text, p + 2))
  /\ isSuitChar(At(text, p + 3))
  /\ At(text, p + 4) = ":"
  /\ isDigit(At(text, p + 5))

RECURSIVE format1Matches(_, _)
\* the successive matches <<hand, weightStr>> of handRegex from position p
\* on: the leftmost match, then the matches after its end
format1Matches(text, p) ==
  LET starts == {q \in p..(Len(text) - 1) : handAt(text, q)}
  IN IF starts = {} THEN <<>>
     ELSE LET q == CHOOSE x \in starts : \A y \in starts : x <= y
              weightStr == numberAt(text, q + 5)
          IN <<<<SubSeq(text, q + 1, q + 4), weightStr>>>>
               \o format1Matches(text, q + 5 + Len(weightStr))

\* handType of a matched hand of four characters
handTypeOf(hand) ==
  IF hand[1] = hand[3] THEN "pairs"
  ELSE IF hand[2] = hand[4] THEN "suited" ELSE "offsuit"

\* as standardHandOf, with the ranks in the order they are written in
standardHandAsWritten(hand) ==
  LET q == IF hand[2] = hand[4] THEN "s" ELSE "o"
  IN IF hand[1] = hand[3] THEN <<hand[1], hand[3]>>
     ELSE <<hand[1], hand[3], q>>

\* standardHand of a matched hand of four characters
standardHandOf(hand) ==
  LET card1 == <<hand[1], hand[2]>>
      card2 == <<hand[3], hand[4]>>
      isSuited == card1[2] = card2[2]
      rank1 == indexOf(ranks, card1[1])
      rank2 == indexOf(ranks, card2[1])
      q == IF isSuited THEN "s" ELSE "o"
  IN IF card1[1] = card2[1] THEN <<card1[1], card2[1]>>
     ELSE IF rank1 >= rank2 THEN <<card1[1], card2[1], q>>
     ELSE <<card2[1], card1[1], q>>

\* as groupByWeight, with the weight left out of the test of a push
groupByType(matches) ==
  LET indices == [n \in 1..Len(matches) |-> n]
      weightAt(n) == parseFloat(matches[n][2]).val
      SeenFirst(n) == \A m \in 1..(n - 1) : weightAt(m) # weightAt(n)
      firsts == SelectSeq(indices, SeenFirst)
      handsOf(weight, handType) ==
        LET Pushed(n) == handTypeOf(matches[n][1]) = handType
            at == SelectSeq(indices, Pushed)
        IN [k \in 1..Len(at) |-> standardHandOf(matches[at[k]][1])]
  IN [k \in 1..Len(firsts) |->
        [weight |-> weightAt(firsts[k]),
         pairs |-> handsOf(weightAt(firsts[k]), "pairs"),
         suited |-> handsOf(weightAt(firsts[k]), "suited"),
         offsuit |-> handsOf(weightAt(firsts[k]), "offsuit")]]

\* the while loop over the matches: hands[weight][handType].push(standardHand),
\* with a new entry for a weight seen first.  The entries are listed in the
\* order of their insertion, each with its hands in the order of the pushes.
groupByWeight(matches) ==
  LET indices == [n \in 1..Len(matches) |-> n]
      weightAt(n) == parseFloat(matches[n][2]).val
      SeenFirst(n) == \A m \in 1..(n - 1) : weightAt(m) # weightAt(n)
      firsts == SelectSeq(indices, SeenFirst)
      handsOf(weight, handType) ==
        LET Pushed(n) == weightAt(n) = weight /\ handTypeOf(matches[n][1]) = handType
            at == SelectSeq(indices, Pushed)
        IN [k \in 1..Len(at) |-> standardHandOf(matches[at[k]][1])]
  IN [k \in 1..Len(firsts) |->
        [weight |-> weightAt(firsts[k]),
         pairs |-> handsOf(weightAt(firsts[k]), "pairs"),
         suited |-> handsOf(weightAt(firsts[k]), "suited"),
         offsuit |-> handsOf(weightAt(firsts[k]), "offsuit")]]

RECURSIVE insertGroup(_, _)
\* g put into a list ascending by weight
insertGroup(sorted, g) ==
  IF Len(sorted) = 0 THEN <<g>>
  ELSE IF sorted[1].weight <= g.weight
       THEN <<sorted[1]>> \o insertGroup(Tail(sorted), g)
       ELSE <<g>> \o sorted

RECURSIVE ascending(_)
ascending(groups) ==
  IF Len(groups) = 0 THEN <<>>
  ELSE insertGroup(ascending(dropLast(groups)), groups[Len(groups)])

\* Object.keys(hands): the integer weights first, ascending, then the other
\* weights in the order of their insertion
keysOrder(groups) ==
  LET IsInt(g) == g.weight % 100 = 0
      NotInt(g) == g.weight % 100 # 0
  IN ascending(SelectSeq(groups, IsInt)) \o SelectSeq(groups, NotInt)

\* hands count as consecutive whatever the gap between their ranks
areConsecutiveAnyGap(hand1, hand2) ==
  IF Len(hand1) = 2 /\ Len(hand2) = 2
  THEN indexOf(ranks, hand1[1]) - indexOf(ranks, hand2[1]) >= 1
  ELSE /\ Len(hand1) = 3
       /\ Len(hand2) = 3
       /\ hand1[3] = hand2[3]
       /\ hand1[1] = hand2[1]
       /\ indexOf(ranks, hand1[2]) - indexOf(ranks, hand2[2]) >= 1

\* areConsecutive(hand1, hand2)
areConsecutive(hand1, hand2) ==
  IF Len(hand1) = 2 /\ Len(hand2) = 2
  THEN indexOf(ranks, hand1[1]) - indexOf(ranks, hand2[1]) = 1
  ELSE /\ Len(hand1) = 3
       /\ Len(hand2) = 3
       /\ hand1[3] = hand2[3]
       /\ hand1[1] = hand2[1]
       /\ indexOf(ranks, hand1[2]) - indexOf(ranks, hand2[2]) = 1

\* the comparator of hands.sort in compressRange
compareHands(a, b) ==
  IF Len(a) = 2 /\ Len(b) = 2
  THEN indexOf(ranks, At(b, 0)) - indexOf(ranks, At(a, 0))
  ELSE IF At(a, 0) # At(b, 0)
       THEN indexOf(ranks, At(b, 0)) - indexOf(ranks, At(a, 0))
       ELSE indexOf(ranks, At(b, 1)) - indexOf(ranks, At(a, 1))

RECURSIVE insertHand(_, _)
\* e put into the sorted list after every hand that does not compare greater
insertHand(sorted, e) ==
  IF Len(sorted) = 0 THEN <<e>>
  ELSE IF compareHands(sorted[1], e) <= 0
       THEN <<sorted[1]>> \o insertHand(Tail(sorted), e)
       ELSE <<e>> \o sorted

RECURSIVE sortHands(_)
\* hands.sort(comparator) (a stable sort)
sortHands(hands) ==
  IF Len(hands) = 0 THEN <<>>
  ELSE insertHand(sortHands(dropLast(hands)), hands[Len(hands)])

\* rangeStart, or `${rangeStart}-${prevHand}`
rangeToken(rangeStart, prevHand) ==
  IF rangeStart = prevHand THEN rangeStart ELSE rangeStart \o <<"-">> \o prevHand

RECURSIVE compressRuns(_, _, _, _)
\* the loop of compressRange from the hand at index i on, and the last range
compressRuns(hands, i, rangeStart, prevHand) ==
  IF i > Len(hands) THEN <<rangeToken(rangeStart, prevHand)>>
  ELSE IF areConsecutive(prevHand, hands[i])
       THEN compressRuns(hands, i + 1, rangeStart, hands[i])
       ELSE <<rangeToken(rangeStart, prevHand)>>
              \o compressRuns(hands, i + 1, hands[i], hands[i])

compressRange(hands) ==
  IF Len(hands) = 0 THEN <<>>
  ELSE LET sorted == sortHands(hands)
       IN compressRuns(sorted, 2, sorted[1], sorted[1])

\* one turn of the forEach over the weights: the section text of a weight
sectionText(g) ==
  LET allHandsInWeight ==
        compressRange(g.pairs) \o compressRange(g.suited) \o compressRange(g.offsuit)
      weight == numberToString(g.weight)
  IN IF Len(allHandsInWeight) = 0 THEN <<>>
     ELSE <<"[">> \o weight \o <<"]">> \o join(allHandsInWeight, <<",", " ">>)
            \o <<"[", "/">> \o weight \o <<"]", "\n">>

convertFormat1ToFormat2(format1Text) ==
  LET keys == keysOrder(groupByWeight(format1Matches(format1Text, 0)))
  IN flatten([n \in 1..Len(keys) |-> sectionText(keys[n])])

\* weightSectionRegex matches at the zero-based position p: "[w]", then the
\* text up to the next "[", which has to open "[/w]"
sectionAt(text, p) ==
  LET weightStr == numberAt(text, p + 1)
      rest == sliceFrom(text, p + 2 + Len(weightStr))
      k == indexOf(rest, "[")
  IN /\ At(text, p) = "["
     /\ Len(weightStr) > 0
     /\ At(text, p + 1 + Len(weightStr)) = "]"
     /\ k >= 0
     /\ startsWith(sliceFrom(rest, k), <<"[", "/">> \o weightStr \o <<"]">>)

RECURSIVE format2Matches(_, _)
\* the successive matches <<weightStr, handsSection>> of weightSectionRegex
\* from position p on: the leftmost match, then the matches after its end
format2Matches(text, p) ==
  LET starts == {q \in p..(Len(text) - 1) : sectionAt(text, q)}
  IN IF starts = {} THEN <<>>
     ELSE LET q == CHOOSE x \in starts : \A y \in starts : x <= y
              weightStr == numberAt(text, q + 1)
              rest == sliceFrom(text, q + 2 + Len(weightStr))
              k == indexOf(rest, "[")
          IN <<<<weightStr, SubSeq(rest, 1, k)>>>>
               \o format2Matches(text, q + 2 * Len(weightStr) + k + 5)

\* as indexDown, for a loop that stops before endIndex
indexDownExclusive(startIndex, endIndex) ==
  [n \in 1..(startIndex - endIndex) |-> startIndex - n + 1]

\* what the loop `for (i = startIndex; i >= endIndex; i--)` visits
indexDown(startIndex, endIndex) ==
  [n \in 1..(startIndex - endIndex + 1) |-> startIndex - n + 1]

\* a value pushed that is no hand of two or three characters: NaN from
\* ranks[-1] + ranks[-1], or a string holding "undefined"
notAHand == <<"NaN">>

expandRange(rangeStr) ==
  IF includes(rangeStr, "-")
  THEN LET parts == split(rangeStr, "-")
           start == trim(parts[1])
           end == trim(parts[2])
       IN IF Len(start) = 2 /\ Len(end) = 2
          THEN LET idx == indexDown(indexOf(ranks, start[1]), indexOf(ranks, end[1]))
               IN [n \in 1..Len(idx) |->
                     IF idx[n] < 0 THEN notAHand
                     ELSE <<At(ranks, idx[n]), At(ranks, idx[n])>>]
          ELSE IF Len(start) = 3 /\ Len(end) = 3 /\ start[1] = end[1]
               THEN LET idx == indexDown(indexOf(ranks, start[2]),
                                         indexOf(ranks, end[2]))
                    IN [n \in 1..Len(idx) |->
                          IF idx[n] < 0 THEN notAHand
                          ELSE <<start[1], At(ranks, idx[n]), start[3]>>]
          ELSE <<>>
  ELSE <<rangeStr>>

\* `${rank1}${suit1}${rank2}${suit2}:${weight}`
format1Token(rank1, suit1, rank2, suit2, weight) ==
  <<rank1, suit1, rank2, suit2, ":">> \o numberToString(weight)

\* the pairs <<suits[i], suits[j]>> of a double loop over c, d, h, s
suitsLoop ==
  LET suits == <<"c", "d", "h", "s">>
  IN [n \in 1..16 |-> <<suits[((n - 1) \div 4) + 1], suits[((n - 1) % 4) + 1]>>]

\* the format 1 hands pushed for one expanded hand
format1HandsOf(hand, weight) ==
  LET suits == <<"c", "d", "h", "s">>
      Upper(p) == indexOf(suits, p[1]) < indexOf(suits, p[2])
      Same(p) == p[1] = p[2]
      Differ(p) == p[1] # p[2]
      chosen == IF Len(hand) = 2 THEN SelectSeq(suitsLoop, Upper)
                ELSE IF hand[3] = "s" THEN SelectSeq(suitsLoop, Same)
                ELSE SelectSeq(suitsLoop, Differ)
      rank1 == hand[1]
      rank2 == IF Len(hand) = 2 THEN hand[1] ELSE hand[2]
  IN IF Len(hand) # 2 /\ Len(hand) # 3 THEN <<>>
     ELSE [n \in 1..Len(chosen) |->
             format1Token(rank1, chosen[n][1], rank2, chosen[n][2], weight)]

\* the format 1 hands of one weight section
sectionHands(weightStr, handsSection) ==
  LET weight == parseFloat(weightStr).val
      parts == split(handsSection, ",")
      handRanges == filterNonEmpty([n \in 1..Len(parts) |-> trim(parts[n])])
      expandedHands == flatten([n \in 1..Len(handRanges) |-> expandRange(handRanges[n])])
  IN flatten([n \in 1..Len(expandedHands) |->
                format1HandsOf(expandedHands[n], weight)])

convertFormat2ToFormat1(format2Text) ==
  LET matches == format2Matches(format2Text, 0)
  IN join(flatten([n \in 1..Len(matches) |->
                     sectionHands(matches[n][1], matches[n][2])]),
          <<",">>)

(***************************************************************************)
(* routes/rangeEngine.js: POST /api/range-engine/convert, for a request    *)
(* that passed the auth middleware and carries strings (a field left out   *)
(* is the empty string here, falsy alike)                                  *)
(***************************************************************************)
validFormats == <<"format1", "format2">>

badRequest(error) == [status |-> 400, converted |-> <<>>, error |-> error]

postConvert(rangeText, fromFormat, toFormat) ==
  IF Len(rangeText) = 0
  THEN badRequest("rangeText is required and must be a string")
  ELSE IF fromFormat = "" \/ toFormat = ""
  THEN badRequest("fromFormat and toFormat are required")
  ELSE IF ~includes(validFormats, fromFormat) \/ ~includes(validFormats, toFormat)
  THEN badRequest("Invalid format. Valid formats are: format1, format2")
  ELSE IF fromFormat = toFormat
  THEN [status |-> 200, converted |-> rangeText, error |-> ""]
  ELSE IF fromFormat = "format1" /\ toFormat = "format2"
  THEN [status |-> 200, converted |-> convertFormat1ToFormat2(rangeText), error |-> ""]
  ELSE [status |-> 200, converted |-> convertFormat2ToFormat1(rangeText), error |-> ""]

\* the response of the toggle route carries no statistics
NoStats == [selectedHands |-> 0, selectedCombos |-> 0]

(***************************************************************************)
(* POST /api/range-engine/toggle over the keyed engine, for a request that *)
(* passed the auth middleware and carries a grid object; a weight left out *)
(* of the body is falsy like 0                                             *)
(***************************************************************************)
postToggle(g, handKey, selected, weight) ==
  IF Len(handKey) = 0
  THEN [status |-> 400, grid |-> g, stats |-> NoStats, notation |-> <<>>]
  ELSE LET updatedGrid == toggleCell(g, handKey, selected, orOne(weight))
       IN [status |-> 200,
           grid |-> updatedGrid,
           stats |-> calculateRangeStats(updatedGrid),
           notation |-> gridToRangeNotation(updatedGrid)]

(***************************************************************************)
(* The HRC parser (src/unnamed/part_000): handToGridCoords.  Its RANKS is   *)
(* the list of the engine, ace first.  null is NoCoords.                    *)
(***************************************************************************)
NoCoords == "null"

\* as handToGridCoords, with row and col taken from the ranks as written
handToGridCoordsAsWritten(handStr) ==
  LET str == trim([n \in 1..Len(handStr) |-> toUpperCase(handStr[n])])
      row == indexOf(RANKS, At(str, 0))
      col == indexOf(RANKS, At(str, 1))
  IN IF Len(str) # 2 /\ Len(str) # 3 THEN NoCoords
     ELSE IF Len(str) = 2 /\ At(str, 0) # At(str, 1) THEN NoCoords
     ELSE IF row = -1 \/ col = -1 THEN NoCoords
     ELSE [row |-> row, col |-> col, isPair |-> Len(str) = 2,
           isSuited |-> Len(str) = 3 /\ At(str, 2) = "S"]

handToGridCoords(handStr) ==
  LET str == trim([n \in 1..Len(handStr) |-> toUpperCase(handStr[n])])
      rank1 == At(str, 0)
      rank2 == At(str, 1)
      pair == Len(str) = 2
      suited == Len(str) = 3 /\ At(str, 2) = "S"
      row == indexOf(RANKS, rank1)
      col == indexOf(RANKS, rank2)
  IN IF Len(str) # 2 /\ Len(str) # 3 THEN NoCoords
     ELSE IF Len(str) = 2 /\ rank1 # rank2 THEN NoCoords
     ELSE IF row = -1 \/ col = -1 THEN NoCoords
     ELSE IF pair THEN [row |-> row, col |-> row, isPair |-> TRUE, isSuited |-> FALSE]
     ELSE IF suited
          THEN IF row > col
               THEN [row |-> col, col |-> row, isPair |-> FALSE, isSuited |-> TRUE]
               ELSE [row |-> row, col |-> col, isPair |-> FALSE, isSuited |-> TRUE]
     ELSE IF row < col
          THEN [row |-> col, col |-> row, isPair |-> FALSE, isSuited |-> FALSE]
          ELSE [row |-> row, col |-> col, isPair |-> FALSE, isSuited |-> FALSE]

(***************************************************************************)
(* Inputs                                                                  *)
(***************************************************************************)
\* the longest list of tokens a notation string is assembled from
MaxTokens == 2

Ranks == {RANKS[i] : i \in 1..Len(RANKS)}

Higher(a, b) == indexOf(RANKS, a) < indexOf(RANKS, b)

PairHands == {<<r, r>> : r \in Ranks}

NonPairHands(q) ==
  {<<p[1], p[2], q>> : p \in {x \in Ranks \X Ranks : Higher(x[1], x[2])}}

\* the 169 canonical starting hands
CanonicalHands == PairHands \cup NonPairHands("s") \cup NonPairHands("o")

\* single tokens: canonical hands, two ranks without qualifier (either order),
\* qualified hands written low rank first, and some that name no hand
SingleInputs ==
  CanonicalHands
    \cup {<<a, b>> : a \in Ranks, b \in Ranks}
    \cup {<<h[2], h[1], h[3]>> : h \in NonPairHands("s") \cup NonPairHands("o")}
    \cup {<<"X", "X">>, <<"A", "X", "s">>, <<"X", "K", "o">>, <<"a", "k", "s">>,
          <<"A", "K", "S">>, <<"A">>, <<"A", "A", "s">>, <<"A", "K", "x">>}

WeightTexts == {<<"0">>, <<"0", ".", "5">>, <<"1">>, <<"0", ".", "2", "5">>}

BadWeightTexts ==
  {<<"x">>, <<>>, <<"1", ".", "5">>, <<"2">>, <<"-", "0", ".", "5">>}

WeightedInputs ==
  {h \o <<":">> \o w : h \in CanonicalHands, w \in WeightTexts}
    \cup {h \o <<":">> \o w :
            h \in {<<"A", "A">>, <<"A", "K", "s">>, <<"T", "9", "o">>},
            w \in BadWeightTexts}

PlusInputs ==
  {h \o <<"+">> : h \in CanonicalHands}
    \cup {<<h[1], h[2], "+">> : h \in NonPairHands("s")}
    \cup {<<"X", "X", "+">>, <<"A", "X", "s", "+">>, <<"+">>, <<"A", "+">>}

DashInputs ==
  {<<a, a, "-", b, b>> : a \in Ranks, b \in Ranks}
    \cup {<<p[1][1], p[1][2], p[1][3], "-", p[1][1], p[2], p[1][3]>> :
            p \in {x \in (NonPairHands("s") \cup NonPairHands("o")) \X Ranks :
                     Higher(x[1][1], x[2])}}
    \cup {<<"A", "K", "s", "-", "Q", "T", "s">>, <<"A", "T", "s", "-", "A", "6", "o">>,
          <<"A", "A", "-", "A", "T", "s">>, <<"A", "T", "-", "A", "6">>,
          <<"X", "X", "-", "T", "T">>, <<"A", "-", "K">>, <<"T", "T", "-">>,
          <<"T", "T", "-", "8", "8", "-", "6", "6">>}

\* the tokens that strings of several tokens are assembled from
TokenPool ==
  {<<"A", "A">>, <<"K", "K", ":", "0", ".", "5">>, <<"A", "K", "s">>, <<"A", "K">>,
   <<"X", "X">>, <<"A", "A", ":", "0", ".", "2", "5">>, <<"J", "J", "+">>,
   <<"A", "K", "s", "-", "A", "J", "s">>, <<" ", "A", "K", "o", " ">>, <<>>, <<" ">>,
   <<"A", "A", ":", "0">>}

RECURSIVE TokenLists(_)
\* the lists of n tokens of the pool
TokenLists(n) ==
  IF n = 0 THEN {<<>>}
  ELSE {l \o <<t>> : l \in TokenLists(n - 1), t \in TokenPool}

\* the strings of 0, 2, .., MaxTokens comma-separated tokens of the pool
MultiInputs ==
  {join(l, <<",">>) : l \in UNION {TokenLists(n) : n \in {0} \cup 2..MaxTokens}}

Notations ==
  SingleInputs \cup WeightedInputs \cup PlusInputs \cup DashInputs \cup MultiInputs

(***************************************************************************)
(* The calls of the library                                                *)
(***************************************************************************)
NoValue == "none"

\* the ranks and suits the combos of four characters are written with
ComboRanks == {"A", "K", "2"}

ComboSuits == {"h", "s"}

\* two cards in either order, of equal or different ranks and suits
Combos == {<<r1, s1, r2, s2>> : r1 \in ComboRanks, s1 \in ComboSuits,
                                  r2 \in ComboRanks, s2 \in ComboSuits}

\* a combo with the weight 1 after it
ComboWeighted(c) == c \o <<":", "1">>

\* the range texts convertRangeFormat is called with
ConvertTexts ==
  {<<>>, <<" ">>, <<"A", "A">>, <<"K", "K", ",", "A", "A">>, <<"A", "A", ",", "K", "K">>,
   <<"A", "A", ",", " ", "K", "K">>, <<"J", "J", "+">>, <<"T", "T", "-", "8", "8">>,
   <<"A", "K", "s", ":", "0", ".", "5">>, <<"A", "K">>, <<"a", "k", "s">>, <<"X", "X">>,
   <<"A", "h", "K", "h", ",", "A", "s", "K", "s">>, <<"K", "s", "A", "h">>,
   <<"A", "h", "A", "d", ",", "7", "c", "2", "d">>} \cup Combos

\* the format names it is called with
EngineFormats == {"standard", "flopzilla", "gtow", "pio", "bogus"}

\* a weight section that lists one shorthand hand
SectionCases ==
  [hand : {<<"A", "A">>, <<"A", "K", "s">>, <<"A", "K", "o">>, <<"A", "K">>,
           <<"7", "2", "o">>},
   weight : {<<"1">>, <<"0", ".", "5">>}]

\* the text [w]hand[/w]
SectionOf(c) ==
  <<"[">> \o c.weight \o <<"]">> \o c.hand \o <<"[", "/">> \o c.weight \o <<"]">>

SectionTexts == {SectionOf(c) : c \in SectionCases}

\* combo texts of one weight in which several combos are of one hand
RepeatTexts ==
  {<<"A", "h", "K", "h", ":", "1", ",", "A", "s", "K", "s", ":", "1">>,
   <<"A", "h", "A", "d", ":", "1", ",", "A", "c", "A", "s", ":", "1">>,
   <<"A", "h", "K", "h", ":", "1", ",", "A", "h", "Q", "h", ":", "1", ",",
     "A", "s", "K", "s", ":", "1">>}

\* combos with their shorthand hands and written weights: hands adjacent in
\* rank under different weights, and one hand under two weights
MixedCases ==
  LET e(c, h, w) == [combo |-> c, hand |-> h, weight |-> w]
      one == <<"1">>
      half == <<"0", ".", "5">>
  IN {<<e(<<"A", "h", "A", "d">>, <<"A", "A">>, one),
        e(<<"K", "h", "K", "d">>, <<"K", "K">>, half)>>,
      <<e(<<"A", "h", "A", "d">>, <<"A", "A">>, one),
        e(<<"K", "h", "K", "d">>, <<"K", "K">>, half),
        e(<<"Q", "h", "Q", "d">>, <<"Q", "Q">>, one)>>,
      <<e(<<"A", "h", "K", "h">>, <<"A", "K", "s">>, half),
        e(<<"A", "h", "Q", "h">>, <<"A", "Q", "s">>, one),
        e(<<"A", "h", "J", "h">>, <<"A", "J", "s">>, one)>>,
      <<e(<<"A", "h", "K", "d">>, <<"A", "K", "o">>, half),
        e(<<"A", "h", "Q", "d">>, <<"A", "Q", "o">>, half),
        e(<<"A", "h", "J", "d">>, <<"A", "J", "o">>, one)>>,
      <<e(<<"A", "h", "K", "h">>, <<"A", "K", "s">>, one),
        e(<<"A", "s", "K", "s">>, <<"A", "K", "s">>, half)>>}

\* the text combo:weight,combo:weight,... of a case
MixedText(case) ==
  join([n \in 1..Len(case) |-> case[n].combo \o <<":">> \o case[n].weight], <<",">>)

MixedTexts == {MixedText(case) : case \in MixedCases}

\* the range texts the /convert route is called with: combos with weights,
\* weight sections, and texts of neither format
RouteTexts ==
  SectionTexts \cup RepeatTexts \cup MixedTexts \cup
  {ComboWeighted(c) : c \in Combos} \cup
  {<<>>, <<" ">>, <<"A", "A">>, <<"K", "K", ",", "A", "A">>,
   <<"A", "h", "K", "h", ":", "1">>,
   <<"K", "s", "A", "h", ":", "0", ".", "5", ",", "A", "h", "K", "s", ":", "0", ".", "5">>,
   <<"A", "h", "A", "d", ":", "1", ",", "K", "h", "K", "d", ":", "1", ",",
     "Q", "h", "Q", "d", ":", "0", ".", "5", ",", "A", "s", "K", "s", ":", "1">>,
   <<"[", "1", "]", "A", "A", "[", "/", "1", "]">>,
   <<"[", "0", ".", "5", "]", "A", "K", "s", "-", "A", "J", "s", ",", " ", "K", "K",
     "[", "/", "0", ".", "5", "]", "\n">>,
   <<"[", "1", "]", "7", "7", "-", "T", "T", ",", "A", "K", "[", "/", "1", "]">>,
   <<"[", "1", "]", "A", "A", "[", "/", "0", ".", "5", "]">>}

\* the longest list of hands compressRange is called with
MaxHands == 3

\* the hands the lists are made of: pairs, suited hands of two high ranks,
\* offsuit hands
PairPool == {<<"A", "A">>, <<"K", "K">>, <<"Q", "Q">>, <<"T", "T">>, <<"9", "9">>,
             <<"2", "2">>}

SuitedPool == {<<"A", "K", "s">>, <<"A", "Q", "s">>, <<"A", "J", "s">>,
               <<"A", "9", "s">>, <<"K", "Q", "s">>, <<"K", "J", "s">>,
               <<"Q", "J", "s">>}

OffsuitPool == {<<"A", "K", "o">>, <<"A", "Q", "o">>, <<"K", "Q", "o">>,
                <<"K", "T", "o">>, <<"3", "2", "o">>}

RECURSIVE ListsOf(_, _)
\* the lists of n hands of a pool, in every order
ListsOf(pool, n) ==
  IF n = 0 THEN {<<>>}
  ELSE {l \o <<h>> : l \in ListsOf(pool, n - 1), h \in pool}

\* the lists compressRange is called with: hands of one type, in any order,
\* some with a hand more than once
HandLists ==
  UNION {ListsOf(PairPool, n) \cup ListsOf(SuitedPool, n) \cup ListsOf(OffsuitPool, n) :
           n \in 1..MaxHands}

\* the format names it is called with ("" for a field left out)
RouteFormats == {"format1", "format2", "gtow", ""}

\* the hands expandShorthand is called with
ExpandInputs == SingleInputs \cup {<<>>, <<"A", "K", "s", "o">>}

\* the hand strings handToGridCoords is called with: the canonical hands,
\* and strings in lower case, with the low rank first, or naming no hand
CoordInputs ==
  CanonicalHands \cup
  {<<"a", "k", "s">>, <<"K", "A", "s">>, <<"K", "A", "o">>, <<" ", "A", "A", " ">>,
   <<"A", "K">>, <<"X", "X">>, <<"A", "X", "s">>, <<>>, <<"A", "K", "s", "o">>}

\* the most cells a grid may differ in from a fresh grid while its caller
\* edits single cells; the cells that differ are then cells it can edit
MaxTouched == 2

\* the keys toggleCell is called with: three hands and a key that names none
ToggleKeys == {<<"A", "A">>, <<"A", "K", "s">>, <<"T", "9", "o">>, <<"X", "X">>}

\* the weights toggleCell is called with, in hundredths
ToggleWeights == {0, 100, 150}

\* the coordinates the array engine's toggleCell is called with
ToggleRows == {0, 12, 13}

ToggleCols == {-1, 0, 1}

\* the cells of the array grid within reach of these coordinates
ToggleCoords == {<<r + 1, c + 1>> : r \in ToggleRows, c \in ToggleCols}

\* the notation strings parsed into a grid that already carries selections
SessionNotations ==
  {<<>>, <<" ">>, <<",">>, <<" ", ",", " ">>, <<"A", "A">>, <<"K", "Q", "s", ":", "0", ".", "5">>}

\* the hands selected in a keyed grid
Selected(g) == {k \in DOMAIN g : g[k].selected}

\* the hands selected in an array grid
SelectedArr(g) ==
  {g[p[1]][p[2]].hand :
     p \in {x \in (1..13) \X (1..13) : g[x[1]][x[2]].selected}}

\* the cells in which a keyed grid differs from a fresh one
Touched(g) == {k \in DOMAIN g : g[k] # createRangeGrid[k]}

TouchedArr(g) ==
  {p \in (1..13) \X (1..13) : g[p[1]][p[2]] # createRangeGridArr[p[1]][p[2]]}

Init ==
  /\ engine \in {"keyed", "array"}
  /\ grid = createRangeGrid
  /\ agrid = createRangeGridArr
  /\ op = "createRangeGrid"
  /\ arg = NoValue
  /\ ret = NoValue

\* grid = parseRangeNotation(rangeText, grid) of the keyed engine
ParseRangeNotation(rangeText) ==
  /\ engine = "keyed"
  /\ grid' = parseRangeNotation(rangeText, grid)
  /\ op' = "parseRangeNotation"
  /\ arg' = rangeText
  /\ ret' = NoValue
  /\ UNCHANGED <<engine, agrid>>

\* notation = gridToRangeNotation(grid) of the keyed engine
GridToRangeNotation ==
  /\ engine = "keyed"
  /\ op' = "gridToRangeNotation"
  /\ arg' = NoValue
  /\ ret' = gridToRangeNotation(grid)
  /\ UNCHANGED <<engine, grid, agrid>>

\* stats = calculateRangeStats(grid) of the keyed engine
CalculateRangeStats ==
  /\ engine = "keyed"
  /\ op' = "calculateRangeStats"
  /\ arg' = NoValue
  /\ ret' = calculateRangeStats(grid)
  /\ UNCHANGED <<engine, grid, agrid>>

\* grid = parseRangeNotation(notation) of the array engine; a TypeError
\* leaves the caller with the grid it had
ParseRangeNotationArr(notation) ==
  /\ engine = "array"
  /\ LET r == parseRangeNotationArr(notation)
     IN /\ agrid' = IF r.threw THEN agrid ELSE r.grid
        /\ ret' = IF r.threw THEN "TypeError" ELSE NoValue
  /\ op' = "parseRangeNotation"
  /\ arg' = notation
  /\ UNCHANGED <<engine, grid>>

GridToRangeNotationArr ==
  /\ engine = "array"
  /\ op' = "gridToRangeNotation"
  /\ arg' = NoValue
  /\ ret' = gridToRangeNotationArr(agrid)
  /\ UNCHANGED <<engine, grid, agrid>>

CalculateRangeStatsArr ==
  /\ engine = "array"
  /\ op' = "calculateRangeStats"
  /\ arg' = NoValue
  /\ ret' = calculateRangeStatsArr(agrid)
  /\ UNCHANGED <<engine, grid, agrid>>

\* combos = expandShorthand(hand) of the keyed engine
ExpandShorthand(hand) ==
  /\ engine = "keyed"
  /\ op' = "expandShorthand"
  /\ arg' = hand
  /\ ret' = expandShorthand(hand)
  /\ UNCHANGED <<engine, grid, agrid>>

ExpandShorthandArr(hand) ==
  /\ engine = "array"
  /\ op' = "expandShorthand"
  /\ arg' = hand
  /\ ret' = expandShorthandArr(hand)
  /\ UNCHANGED <<engine, grid, agrid>>

\* convertRangeFormat(rangeText, fromFormat, toFormat) of the keyed engine
ConvertRangeFormat(rangeText, fromFormat, toFormat) ==
  /\ engine = "keyed"
  /\ op' = "convertRangeFormat"
  /\ arg' = [rangeText |-> rangeText, fromFormat |-> fromFormat, toFormat |-> toFormat]
  /\ ret' = convertRangeFormat(rangeText, fromFormat, toFormat)
  /\ UNCHANGED <<engine, grid, agrid>>

ConvertRangeFormatArr(rng, from, to) ==
  /\ engine = "array"
  /\ op' = "convertRangeFormat"
  /\ arg' = [rangeText |-> rng, fromFormat |-> from, toFormat |-> to]
  /\ ret' = convertRangeFormatArr(rng, from, to)
  /\ UNCHANGED <<engine, grid, agrid>>

\* POST /api/range-engine/convert with the body { rangeText, fromFormat,
\* toFormat }; ret is the response
PostConvert(rangeText, fromFormat, toFormat) ==
  /\ op' = "POST /convert"
  /\ arg' = [rangeText |-> rangeText, fromFormat |-> fromFormat, toFormat |-> toFormat]
  /\ ret' = postConvert(rangeText, fromFormat, toFormat)
  /\ UNCHANGED <<engine, grid, agrid>>

\* ranges = compressRange(hands) of RangeFormatConverter
CompressRange(hands) ==
  /\ op' = "compressRange"
  /\ arg' = hands
  /\ ret' = compressRange(hands)
  /\ UNCHANGED <<engine, grid, agrid>>

\* coords = handToGridCoords(handStr) of the HRC parser
HandToGridCoords(handStr) ==
  /\ op' = "handToGridCoords"
  /\ arg' = handStr
  /\ ret' = handToGridCoords(handStr)
  /\ UNCHANGED <<engine, grid, agrid>>

\* grid = createRangeGrid() of the keyed engine
CreateRangeGrid ==
  /\ engine = "keyed"
  /\ grid' = createRangeGrid
  /\ op' = "createRangeGrid"
  /\ arg' = NoValue
  /\ ret' = NoValue
  /\ UNCHANGED <<engine, agrid>>

CreateRangeGridArr ==
  /\ engine = "array"
  /\ agrid' = createRangeGridArr
  /\ op' = "createRangeGrid"
  /\ arg' = NoValue
  /\ ret' = NoValue
  /\ UNCHANGED <<engine, grid>>

\* grid = toggleCell(grid, handKey, selected, weight) of the keyed engine
ToggleCell(handKey, selected, weight) ==
  /\ engine = "keyed"
  /\ grid' = toggleCell(grid, handKey, selected, weight)
  /\ op' = "toggleCell"
  /\ arg' = [handKey |-> handKey, selected |-> selected, weight |-> weight]
  /\ ret' = NoValue
  /\ UNCHANGED <<engine, agrid>>

\* grid = toggleCell(grid, row, col, selected) of the array engine
ToggleCellArr(row, col, selected) ==
  /\ engine = "array"
  /\ agrid' = toggleCellArr(agrid, row, col, selected)
  /\ op' = "toggleCell"
  /\ arg' = [row |-> row, col |-> col, selected |-> selected]
  /\ ret' = NoValue
  /\ UNCHANGED <<engine, grid>>

\* the response of POST /toggle for the caller's grid; the caller keeps the
\* grid of the response
PostToggle(handKey, selected, weight) ==
  /\ engine = "keyed"
  /\ LET res == postToggle(grid, handKey, selected, weight)
     IN /\ grid' = res.grid
        /\ ret' = [status |-> res.status, stats |-> res.stats, notation |-> res.notation]
  /\ op' = "POST /toggle"
  /\ arg' = [handKey |-> handKey, selected |-> selected, weight |-> weight]
  /\ UNCHANGED <<engine, agrid>>

(***************************************************************************)
(* Spec: a caller of the library.  It parses one notation string into a    *)
(* fresh grid, or edits single cells of a fresh grid, directly or through  *)
(* the toggle route; it serializes and                                     *)
(* summarizes the grid, parses the serialized string back, parses a        *)
(* string into the edited grid, or starts again from a fresh grid.         *)
(***************************************************************************)
Fresh == op = "createRangeGrid"

Parsed == op = "parseRangeNotation"

Toggled == op = "toggleCell"

Serialized == op = "gridToRangeNotation"

Next ==
  \/ ~Fresh /\ CreateRangeGrid
  \/ Fresh /\ \E t \in Notations : ParseRangeNotation(t)
  \/ Toggled /\ \E t \in SessionNotations : ParseRangeNotation(t)
  \/ Serialized /\ ParseRangeNotation(ret)
  \/ \E h \in ToggleKeys, sel \in BOOLEAN, w \in ToggleWeights :
       /\ Fresh \/ Toggled
       /\ ToggleCell(h, sel, w)
       /\ Touched(grid') \subseteq ToggleKeys
       /\ Cardinality(Touched(grid')) <= MaxTouched
  \/ (Parsed \/ Toggled) /\ GridToRangeNotation
  \/ (Parsed \/ Toggled) /\ CalculateRangeStats
  \/ Fresh /\ \E h \in ExpandInputs : ExpandShorthand(h)
  \/ Fresh /\ \E h \in ToggleKeys \cup {<<>>}, sel \in BOOLEAN, w \in ToggleWeights :
                PostToggle(h, sel, w)
  \/ ~Fresh /\ CreateRangeGridArr
  \/ Fresh /\ \E t \in Notations : ParseRangeNotationArr(t)
  \/ Toggled /\ \E t \in SessionNotations : ParseRangeNotationArr(t)
  \/ Serialized /\ ParseRangeNotationArr(ret)
  \/ \E r \in ToggleRows, c \in ToggleCols, sel \in {"null", "true", "false"} :
       /\ Fresh \/ Toggled
       /\ ToggleCellArr(r, c, sel)
       /\ TouchedArr(agrid') \subseteq ToggleCoords
       /\ Cardinality(TouchedArr(agrid')) <= MaxTouched
  \/ (Parsed \/ Toggled) /\ GridToRangeNotationArr
  \/ (Parsed \/ Toggled) /\ CalculateRangeStatsArr
  \/ Fresh /\ \E h \in ExpandInputs : ExpandShorthandArr(h)
  \/ Fresh /\ \E h \in CoordInputs : HandToGridCoords(h)

Spec == Init /\ [][Next]_vars

(***************************************************************************)
(* SpecConvert: a caller of the conversions.  It converts one range text   *)
(* with convertRangeFormat of the loaded engine or posts it once to the    *)
(* /convert route, or compresses one list of hands.                        *)
(***************************************************************************)
NextConvert ==
  \/ Fresh /\ \E t \in ConvertTexts, from \in EngineFormats, to \in EngineFormats :
                ConvertRangeFormat(t, from, to)
  \/ Fresh /\ \E t \in ConvertTexts, from \in EngineFormats, to \in EngineFormats :
                ConvertRangeFormatArr(t, from, to)
  \/ Fresh /\ \E t \in RouteTexts, from \in RouteFormats, to \in RouteFormats :
                PostConvert(t, from, to)
  \/ Fresh /\ \E hands \in HandLists : CompressRange(hands)

SpecConvert == Init /\ [][NextConvert]_vars

(***************************************************************************)
(* Properties                                                              *)
(***************************************************************************)
\* a grid in which the selected cells have weight 1.0 and the others are as
\* createRangeGrid made them
SelectedAtWeightOne(g) ==
  \A k \in DOMAIN g :
    IF g[k].selected THEN g[k].weight = 100 ELSE g[k] = createRangeGrid[k]

\* C1: a keyed grid with a set S of hands selected at weight 1.0, serialized
\* with gridToRangeNotation and parsed back with parseRangeNotation, has
\* exactly the hands of S selected.
C1_RoundTrip ==
  [][(/\ engine = "keyed"
      /\ Serialized
      /\ SelectedAtWeightOne(grid)
      /\ op' = "parseRangeNotation"
      /\ arg' = ret)
     => Selected(grid') = Selected(grid)]_vars

\* a suited and an offsuit hand selected by toggleCell came back from the
\* serialized string "AKs,T9o"
C1_Witness ==
  /\ engine = "keyed"
  /\ Parsed
  /\ arg = <<"A", "K", "s", ",", "T", "9", "o">>
  /\ Selected(grid) = {<<"A", "K", "s">>, <<"T", "9", "o">>}

\* the cells of an array grid, row by row
ArrCells(g) == flatten(g)

\* the number of cells of a list that have the type and the combos count
CountOf(cells, type, combos) ==
  Cardinality({n \in 1..Len(cells) : cells[n].type = type /\ cells[n].combos = combos})

\* C2: the grid createRangeGrid returns has 169 cells, 13 pairs of 6 combos,
\* 78 suited hands of 4 and 78 offsuit hands of 12, and the combos of all
\* cells add up to 1326 = TOTAL_COMBOS (both engines).
C2_GridShape ==
  Fresh =>
    /\ DOMAIN grid = CanonicalHands
    /\ Cardinality(DOMAIN grid) = 169
    /\ \A k \in DOMAIN grid : grid[k].key = k
    /\ CountOf(objectValues(grid), "pair", 6) = 13
    /\ CountOf(objectValues(grid), "suited", 4) = 78
    /\ CountOf(objectValues(grid), "offsuit", 12) = 78
    /\ sum([n \in 1..169 |-> objectValues(grid)[n].combos]) = 1326
    /\ Len(ArrCells(agrid)) = 169
    /\ {ArrCells(agrid)[n].hand : n \in 1..169} = CanonicalHands
    /\ CountOf(ArrCells(agrid), "pair", 6) = 13
    /\ CountOf(ArrCells(agrid), "suited", 4) = 78
    /\ CountOf(ArrCells(agrid), "offsuit", 12) = 78
    /\ sum([n \in 1..169 |-> ArrCells(agrid)[n].combos]) = 1326
    /\ TOTAL_COMBOS = 1326

\* a caller of the array engine went back to a fresh grid
C2_Witness ==
  /\ Fresh
  /\ engine = "array"
  /\ agrid[13][1].hand = <<"A", "2", "o">>
  /\ agrid[13][1].combos = 12
  /\ grid[<<"A", "2", "s">>].combos = 4

\* the elements of a list
SeqSet(list) == {list[n] : n \in 1..Len(list)}

\* the hands selected in the grid of the engine that is loaded
SelectedNow == IF engine = "keyed" THEN Selected(grid) ELSE SelectedArr(agrid)

\* expandShorthand of the engine that is loaded
ExpandNow(hand) ==
  IF engine = "keyed" THEN expandShorthand(hand) ELSE expandShorthandArr(hand)

\* two ranks, with or without a qualifier s or o
IsRankHand(h) ==
  /\ Len(h) \in {2, 3}
  /\ h[1] \in Ranks
  /\ h[2] \in Ranks
  /\ Len(h) = 3 => h[3] \in {"s", "o"}

\* C3: expandShorthand returns 6 distinct combos for a pair, 4 for a suited
\* hand, 12 for an offsuit hand and 16 for two distinct ranks without a
\* qualifier, the 16 being the suited and the offsuit combos together (both
\* engines, every pair of ranks).
C3_ExpandCounts ==
  (op = "expandShorthand" /\ IsRankHand(arg)) =>
    /\ Cardinality(SeqSet(ret)) = Len(ret)
    /\ (Len(arg) = 2 /\ arg[1] = arg[2]) => Len(ret) = 6
    /\ (Len(arg) = 3 /\ arg[1] # arg[2] /\ arg[3] = "s") => Len(ret) = 4
    /\ (Len(arg) = 3 /\ arg[1] # arg[2] /\ arg[3] = "o") => Len(ret) = 12
    /\ (Len(arg) = 2 /\ arg[1] # arg[2]) =>
         /\ Len(ret) = 16
         /\ SeqSet(ret) = SeqSet(ExpandNow(arg \o <<"s">>))
                            \cup SeqSet(ExpandNow(arg \o <<"o">>))

\* the array engine expanded "AK" to 16 combos
C3_Witness ==
  /\ op = "expandShorthand"
  /\ engine = "array"
  /\ arg = <<"A", "K">>
  /\ Len(ret) = 16
  /\ <<"A", "h", "K", "h">> \in SeqSet(ret)
  /\ <<"A", "h", "K", "s">> \in SeqSet(ret)

\* x is rank a, rank b or a rank between them
Between(x, a, b) ==
  /\ min(indexOf(RANKS, a), indexOf(RANKS, b)) <= indexOf(RANKS, x)
  /\ indexOf(RANKS, x) <= max(indexOf(RANKS, a), indexOf(RANKS, b))

\* C4: parsing a pair plus-range "RR+" selects exactly the pairs of rank R or
\* higher and no other cell (both engines).
C4_PairPlus ==
  (Parsed /\ arg \in {<<r, r, "+">> : r \in Ranks}) =>
    /\ ret = NoValue
    /\ SelectedNow = {<<x, x>> : x \in {y \in Ranks : ~Higher(arg[1], y)}}

\* "JJ+" selected JJ, QQ, KK and AA in the array engine
C4_Witness ==
  /\ Parsed
  /\ engine = "array"
  /\ arg = <<"J", "J", "+">>
  /\ SelectedArr(agrid) = {<<"J", "J">>, <<"Q", "Q">>, <<"K", "K">>, <<"A", "A">>}

\* the dash-ranges of two pairs
PairDashes == {<<a, a, "-", b, b>> : a \in Ranks, b \in Ranks}

\* the dash-ranges of two non-pair hands of one high rank and one qualifier
NonPairDashes ==
  {t \in DashInputs :
     /\ Len(t) = 7
     /\ <<t[1], t[2], t[3]>> \in CanonicalHands
     /\ <<t[5], t[6], t[7]>> \in CanonicalHands
     /\ t[1] = t[5]
     /\ t[3] = t[7]}

\* C5: parsing a dash-range selects exactly the inclusive span between its
\* endpoints, whichever is written first: the pairs between two pairs, and
\* for two non-pair hands of one high rank and one qualifier the hands whose
\* low rank lies between the two low ranks (both engines).
C5_DashSpan ==
  /\ (Parsed /\ arg \in PairDashes) =>
       /\ ret = NoValue
       /\ SelectedNow = {<<x, x>> : x \in {y \in Ranks : Between(y, arg[1], arg[4])}}
  /\ (Parsed /\ arg \in NonPairDashes) =>
       /\ ret = NoValue
       /\ SelectedNow =
            {<<arg[1], x, arg[3]>> : x \in {y \in Ranks : Between(y, arg[2], arg[6])}}

\* "A6s-ATs", low end first, selected ATs down to A6s in the keyed engine
C5_Witness ==
  /\ Parsed
  /\ engine = "keyed"
  /\ arg = <<"A", "6", "s", "-", "A", "T", "s">>
  /\ Selected(grid) = {<<"A", "T", "s">>, <<"A", "9", "s">>, <<"A", "8", "s">>,
                       <<"A", "7", "s">>, <<"A", "6", "s">>}

\* the weight a weight text stands for, in hundredths
WeightValue(w) ==
  CASE w = <<"0">> -> 0
    [] w = <<"0", ".", "2", "5">> -> 25
    [] w = <<"0", ".", "5">> -> 50
    [] w = <<"1">> -> 100

\* the tokens "h:w" of a canonical hand h and a weight w in [0, 1]
WeightedTokens == {h \o <<":">> \o w : h \in CanonicalHands, w \in WeightTexts}

\* the hand and the weight text of a token "h:w"
HandOf(t) == split(t, ":")[1]

WeightOf(t) == split(t, ":")[2]

\* the weight stored for hand h in the grid of the engine that is loaded
StoredWeight(h) ==
  IF engine = "keyed" THEN grid[h].weight
  ELSE LET p == CHOOSE x \in (1..13) \X (1..13) : agrid[x[1]][x[2]].hand = h
       IN agrid[p[1]][p[2]].weight

\* gridToRangeNotation of the engine that is loaded, on its grid
NotationNow ==
  IF engine = "keyed" THEN gridToRangeNotation(grid) ELSE gridToRangeNotationArr(agrid)

\* C6: parsing "h:w" for a canonical hand h and a weight w in [0,1] marks h
\* selected with weight exactly w, and serializing the grid again gives "h"
\* when w is 1.0 and "h:w" for every other weight.
C6_WeightStored ==
  (Parsed /\ arg \in WeightedTokens) =>
    /\ SelectedNow = {HandOf(arg)}
    /\ StoredWeight(HandOf(arg)) = WeightValue(WeightOf(arg))
    /\ NotationNow = IF WeightValue(WeightOf(arg)) = 100 THEN HandOf(arg) ELSE arg

\* the formats the loaded engine's convertRangeFormat documents
SupportedFormats ==
  IF engine = "keyed" THEN {"gtow", "flopzilla", "standard"} ELSE {"gtow", "flopzilla"}

\* C7: convertRangeFormat(x, fmt, fmt) returns x unchanged for every string x
\* and every supported format fmt, and the /convert route returns rangeText
\* unchanged when fromFormat equals toFormat.
C7_SameFormatIdentity ==
  /\ (/\ op = "convertRangeFormat"
      /\ arg.fromFormat = arg.toFormat
      /\ arg.fromFormat \in SupportedFormats)
     => ret = arg.rangeText
  /\ (/\ op = "POST /convert"
      /\ arg.fromFormat = arg.toFormat
      /\ arg.fromFormat \in SeqSet(validFormats))
     => (ret.status = 200 /\ ret.converted = arg.rangeText)

\* the cells of the loaded engine's grid, in the order its statistics loop
\* visits them
CellsNow == IF engine = "keyed" THEN objectValues(grid) ELSE cellsArr(agrid)

\* the cells that take part in the range: selected with a weight other than 0
TakingPart ==
  LET InRange(c) == c.selected /\ c.weight # 0 IN SelectSeq(CellsNow, InRange)

\* the sum of the fixed combo counts of a list of cells
CombosOfCells(cells) == sum([n \in 1..Len(cells) |-> cells[n].combos])

\* the sum of combos times weight of a list of cells, in hundredths
WeightedOfCells(cells) ==
  sum([n \in 1..Len(cells) |-> cells[n].combos * cells[n].weight])

\* C8: calculateRangeStats reports selectedHands as the number of cells that
\* take part in the range and selectedCombos as the sum of their fixed combo
\* counts; a cell that is selected with weight 0 counts as unselected and
\* adds to neither figure nor to the percentage.
C8_StatsOfRange ==
  op = "calculateRangeStats" =>
    /\ ret.selectedHands = Len(TakingPart)
    /\ (\A n \in 1..Len(TakingPart) : TakingPart[n].weight = 100)
         => ret.selectedCombos = CombosOfCells(TakingPart)
    /\ ret.percentage = roundDiv(WeightedOfCells(TakingPart) * 10, TOTAL_COMBOS)

\* a character that is none of the thirteen rank letters, in either case
UnknownRank(c) == c = "X"

\* the notations with a token that holds an unrecognized rank letter
HasUnknownRank(t) == \E n \in 1..Len(t) : UnknownRank(t[n])

\* the parse ended with an error instead of a grid
ParseFailed == ret # NoValue

\* C9: parseRangeNotation is all-or-nothing: when a token of the input holds
\* an unrecognized rank letter the parse ends with an error, and no grid with
\* the other tokens applied comes back as a success.
C9_AllOrNothing ==
  (Parsed /\ HasUnknownRank(arg)) => ParseFailed

\* the tokens "h:w" whose weight text is not a number or lies outside [0, 1]
BadWeightTokens ==
  {h \o <<":">> \o w :
     h \in {<<"A", "A">>, <<"A", "K", "s">>, <<"T", "9", "o">>},
     w \in BadWeightTexts}

\* C10: a weight suffix that is not a number or lies outside [0,1] makes
\* parseRangeNotation fail; the token marks no cell, it is not replaced by
\* weight 1 and a weight above 1 is not stored.
C10_InvalidWeight ==
  (Parsed /\ arg \in BadWeightTokens) => (ParseFailed /\ SelectedNow = {})

\* dash ranges whose end points do not fit: different high ranks, different
\* qualifiers, a pair with a non-pair
IncompatibleDashes ==
  {<<"A", "K", "s", "-", "Q", "T", "s">>, <<"A", "T", "s", "-", "A", "6", "o">>,
   <<"A", "A", "-", "A", "T", "s">>}

\* C11: a dash range whose end points are structurally incompatible is
\* malformed: parsing it fails with an error and selects no hand.
C11_IncompatibleDash ==
  (Parsed /\ arg \in IncompatibleDashes) => (ParseFailed /\ SelectedNow = {})

\* a hand expandShorthand must refuse: not two or three characters, a
\* character in a rank position that is no rank in either case, or a pair
\* with a qualifier s or o
InvalidHand(h) ==
  \/ Len(h) \notin {2, 3}
  \/ toUpperCase(h[1]) \notin Ranks
  \/ toUpperCase(h[2]) \notin Ranks
  \/ Len(h) = 3 /\ h[1] = h[2] /\ h[3] \in {"s", "o"}

\* C12: expandShorthand returns no combos whenever the input is not 2 or 3
\* characters long, has a character that is no rank in a rank position, or is
\* a pair with a suited/offsuit qualifier such as "AAs".
C12_InvalidHandNoCombos ==
  (op = "expandShorthand" /\ InvalidHand(arg)) => ret = <<>>

\* the conversion was asked from or to a format that no build supports
UnsupportedAsked == arg.fromFormat = "bogus" \/ arg.toFormat = "bogus"

\* what the keyed engine gives for its default output format
DefaultOutput(rangeText) ==
  gridToRangeNotation(parseRangeNotation(rangeText, createRangeGrid))

\* C13: a conversion that names a format outside the supported set is
\* reported as an error: convertRangeFormat neither falls back to a default
\* output format nor returns the input as if converted, and the /convert
\* route answers with an error.
C13_UnsupportedFormat ==
  /\ (op = "convertRangeFormat" /\ UnsupportedAsked /\ trim(arg.rangeText) # <<>>) =>
       /\ ret # arg.rangeText
       /\ ret # DefaultOutput(arg.rangeText)
  /\ (op = "POST /convert" /\ arg.rangeText # <<>>
        /\ (arg.fromFormat = "gtow" \/ arg.toFormat = "gtow")) =>
       ret.status = 400

\* the cells of the grid of the engine that is loaded
CellSetNow ==
  IF engine = "keyed" THEN {grid[k] : k \in DOMAIN grid}
  ELSE {agrid[p[1]][p[2]] : p \in (1..13) \X (1..13)}

\* C14: after any sequence of createRangeGrid, parseRangeNotation and
\* toggleCell calls every cell that is not selected has weight 0; toggleCell
\* with selected = false leaves weight 0 whatever weight it is given.
C14_UnselectedWeightZero ==
  \A c \in CellSetNow : ~c.selected => c.weight = 0

\* the thirteen ranks from the highest to the lowest
Descending == <<"A", "K", "Q", "J", "T", "9", "8", "7", "6", "5", "4", "3", "2">>

\* the hand of the cell at (row, col), both counted from 0: the pair on the
\* diagonal, the suited hand above it, the offsuit hand below it, the higher
\* rank first
HandAtCoords(row, col) ==
  IF row = col THEN <<Descending[row + 1], Descending[row + 1]>>
  ELSE IF row < col THEN <<Descending[row + 1], Descending[col + 1], "s">>
  ELSE <<Descending[col + 1], Descending[row + 1], "o">>

TypeAtCoords(row, col) ==
  IF row = col THEN "pair" ELSE IF row < col THEN "suited" ELSE "offsuit"

\* C15: the grid createRangeGrid returns has every cell unselected with
\* weight 0, and the cell at (row, col) is the pair when row = col, the suited
\* hand when row < col and the offsuit hand when row > col, keyed with the
\* higher rank first (both engines).
C15_FreshLayout ==
  Fresh =>
    /\ \A c \in CellSetNow : ~c.selected /\ c.weight = 0
    /\ engine = "keyed" =>
         \A row \in 0..12, col \in 0..12 :
           /\ HandAtCoords(row, col) \in DOMAIN grid
           /\ grid[HandAtCoords(row, col)].key = HandAtCoords(row, col)
           /\ grid[HandAtCoords(row, col)].row = row
           /\ grid[HandAtCoords(row, col)].col = col
           /\ grid[HandAtCoords(row, col)].type = TypeAtCoords(row, col)
    /\ engine = "array" =>
         \A row \in 0..12, col \in 0..12 :
           /\ agrid[row + 1][col + 1].hand = HandAtCoords(row, col)
           /\ agrid[row + 1][col + 1].type = TypeAtCoords(row, col)

\* a caller of the keyed engine holds a fresh grid: A2o is in the last row
C15_Witness ==
  /\ Fresh
  /\ engine = "keyed"
  /\ grid[<<"A", "2", "o">>].row = 12
  /\ grid[<<"A", "2", "o">>].col = 0
  /\ ~grid[<<"A", "2", "o">>].selected

\* the notations without a token: empty, white space, commas and spaces
BlankNotations == {<<>>, <<" ">>, <<",">>, <<" ", ",", " ">>}

\* C16: parseRangeNotation of an empty or all-whitespace string, or of commas
\* and spaces only, returns without error a grid with no cell selected and
\* every weight 0, whatever selections the grid passed in carried; the
\* result of a parse is the one the notation gives on a fresh grid.
C16_BlankAndReset ==
  /\ (Parsed /\ arg \in BlankNotations) =>
       /\ ~ParseFailed
       /\ \A c \in CellSetNow : ~c.selected /\ c.weight = 0
  /\ (Parsed /\ engine = "keyed") => grid = parseRangeNotation(arg, createRangeGrid)
  /\ (Parsed /\ engine = "array" /\ ~ParseFailed) =>
       agrid = parseRangeNotationArr(arg).grid

\* a caller of the keyed engine parsed a string of commas and spaces into its
\* grid and holds an empty grid
C16_Witness ==
  /\ Parsed
  /\ engine = "keyed"
  /\ arg = <<" ", ",", " ">>
  /\ grid = createRangeGrid

\* tokens that name one hand, with or without a weight
PlainTokens ==
  {<<"A", "A">>, <<"A", "A", ":", "0", ".", "2", "5">>, <<"A", "A", ":", "0">>,
   <<"K", "K", ":", "0", ".", "5">>, <<"A", "K", "s">>}

\* the strings of two such tokens
TwoTokenNotations == {a \o <<",">> \o b : a \in PlainTokens, b \in PlainTokens}

\* the weight a token is written with, in hundredths; 1.0 without a suffix
WrittenWeight(t) == IF includes(t, ":") THEN WeightValue(WeightOf(t)) ELSE 100

\* C17: within one parseRangeNotation call of the keyed engine, when tokens
\* name the same hand, the hand is selected and the weight stored for it is
\* the weight of the last such token in input order.
C17_LastTokenWins ==
  (Parsed /\ engine = "keyed" /\ arg \in TwoTokenNotations) =>
    LET tokens == split(arg, ",")
    IN \A n \in 1..Len(tokens) :
         (\A m \in (n + 1)..Len(tokens) : HandOf(tokens[m]) # HandOf(tokens[n])) =>
           /\ grid[HandOf(tokens[n])].selected
           /\ grid[HandOf(tokens[n])].weight = WrittenWeight(tokens[n])

\* the tokens of two distinct ranks without a qualifier, in either order
BareTokens == {<<p[1], p[2]>> : p \in {x \in Ranks \X Ranks : x[1] # x[2]}}

\* the canonical hand of two distinct ranks and a qualifier
CanonicalOf(a, b, q) == IF Higher(a, b) THEN <<a, b, q>> ELSE <<b, a, q>>

\* C18: parsing a single token of two distinct ranks without qualifier, such
\* as "AK", selects exactly the suited and the offsuit cell of the two ranks.
C18_BareTokenBoth ==
  (Parsed /\ arg \in BareTokens) =>
    SelectedNow = {CanonicalOf(arg[1], arg[2], "s"), CanonicalOf(arg[1], arg[2], "o")}

\* the number of combos a shorthand hand stands for
ComboCount(h) ==
  IF h[1] = h[2] THEN 6
  ELSE IF Len(h) = 2 THEN 16
  ELSE IF h[3] = "s" THEN 4 ELSE 12

\* a combo token of hand h with weight text w: two cards of the ranks of h,
\* then ":" and the weight
IsComboTokenOf(t, h, w) ==
  /\ Len(t) = 5 + Len(w)
  /\ {t[1], t[3]} = {h[1], h[2]}
  /\ t[2] \in {"c", "d", "h", "s"}
  /\ t[4] \in {"c", "d", "h", "s"}
  /\ <<t[1], t[2]>> # <<t[3], t[4]>>
  /\ SubSeq(t, 5, Len(t)) = <<":">> \o w

\* C19: convertFormat2ToFormat1 emits for a shorthand hand listed in a weight
\* section exactly as many combo tokens as the hand stands for (6, 4, 12, or
\* 16 without qualifier), each two cards of the hand's ranks followed by
\* ":<weight>" of the section.
C19_SectionComboCount ==
  \A c \in SectionCases :
    (/\ op = "POST /convert"
     /\ arg.fromFormat = "format2"
     /\ arg.toFormat = "format1"
     /\ arg.rangeText = SectionOf(c)) =>
      LET tokens == split(ret.converted, ",")
      IN /\ ret.status = 200
         /\ Len(tokens) = ComboCount(c.hand)
         /\ Cardinality(SeqSet(tokens)) = Len(tokens)
         /\ \A n \in 1..Len(tokens) : IsComboTokenOf(tokens[n], c.hand, c.weight)

\* the plus-ranges of a canonical non-pair hand: high rank, low rank, qualifier
NonPairPlus == {h \o <<"+">> : h \in NonPairHands("s") \cup NonPairHands("o")}

TokensOfSection(text) ==
  LET inner == SubSeq(text, 4, Len(text) - 5)
      raw == split(inner, ",")
  IN [n \in 1..Len(raw) |-> trim(raw[n])]

\* the hands a token of a section covers
HandsOfToken(t) == SeqSet(expandRange(t))

\* C21: convertFormat1ToFormat2 deduplicates: when several combo tokens of
\* one weight are of the same shorthand hand, that hand appears at most once
\* in the weight section, alone or inside one dash-range; gtowToFlopzilla
\* lists a hand once as well.
C21_Deduplicates ==
  /\ (/\ op = "POST /convert"
      /\ arg.fromFormat = "format1"
      /\ arg.toFormat = "format2"
      /\ arg.rangeText \in RepeatTexts) =>
       LET tokens == TokensOfSection(ret.converted)
       IN \A n \in 1..Len(tokens), m \in 1..Len(tokens) :
            n # m => HandsOfToken(tokens[n]) \cap HandsOfToken(tokens[m]) = {}
  /\ (/\ op = "convertRangeFormat"
      /\ engine = "array"
      /\ arg.fromFormat = "gtow"
      /\ arg.toFormat = "flopzilla"
      /\ trim(arg.rangeText) # <<>>) =>
       LET tokens == split(ret, ",")
       IN Cardinality(SeqSet(tokens)) = Len(tokens)

\* a list without a hand twice
DuplicateFree(list) == Cardinality(SeqSet(list)) = Len(list)

\* the place of the rank a hand is ranged by, 1 for the ace: the rank of a
\* pair, the low rank of a suited or offsuit hand
RunIndex(h) ==
  LET r == IF Len(h) = 2 THEN h[1] ELSE h[2]
  IN CHOOSE n \in 1..13 : Descending[n] = r

\* two hands that can stand in one range: two pairs, or two hands of one
\* high rank and one qualifier
SameLine(a, b) ==
  /\ Len(a) = Len(b)
  /\ Len(a) = 3 => (a[1] = b[1] /\ a[3] = b[3])

\* S holds a hand of the line of a at run index k
HasAt(S, a, k) == \E h \in S : SameLine(h, a) /\ RunIndex(h) = k

\* a down to b is a maximal run of adjacent hands of S
MaximalRun(S, a, b) ==
  /\ SameLine(a, b)
  /\ RunIndex(a) <= RunIndex(b)
  /\ \A k \in RunIndex(a)..RunIndex(b) : HasAt(S, a, k)
  /\ ~HasAt(S, a, RunIndex(a) - 1)
  /\ ~HasAt(S, a, RunIndex(b) + 1)

\* one token per maximal run: the bare hand, or "<start>-<end>"
RunTokens(S) ==
  {IF p[1] = p[2] THEN p[1] ELSE p[1] \o <<"-">> \o p[2] :
     p \in {x \in S \X S : MaximalRun(S, x[1], x[2])}}

\* C22: compressRange of a list of hands of one type emits one token per
\* maximal run of adjacent hands: "<start>-<end>" for a run of two or more,
\* the bare hand for a single one; a gap breaks a run and no token joins
\* hands of different high ranks.
C22_MaximalRuns ==
  (op = "compressRange" /\ DuplicateFree(arg)) =>
    /\ SeqSet(ret) = RunTokens(SeqSet(arg))
    /\ Len(ret) = Cardinality(RunTokens(SeqSet(arg)))

\* AQs, AKs and A9s were compressed to the run AKs-AQs and the single A9s
C22_Witness ==
  /\ op = "compressRange"
  /\ arg = <<<<"A", "Q", "s">>, <<"A", "K", "s">>, <<"A", "9", "s">>>>
  /\ ret = <<<<"A", "K", "s", "-", "A", "Q", "s">>, <<"A", "9", "s">>>>

\* the bucket of a token: 0 for pairs, 1 for suited, 2 for offsuit hands; the
\* token is a hand or a dash-range, with or without a weight suffix
Bucket(token) ==
  IF token[1] = token[2] THEN 0
  ELSE IF Len(token) > 2 /\ token[3] = "s" THEN 1
  ELSE 2

\* the tokens of a list are in bucket order
BucketOrder(tokens) ==
  \A n \in 1..Len(tokens), m \in 1..Len(tokens) :
    n < m => Bucket(tokens[n]) <= Bucket(tokens[m])

\* the section texts of a format-2 text, one per line
SectionLines(text) == filterNonEmpty(split(text, "\n"))

\* the tokens of one line "[w]...[/w]"
TokensOfLine(line) ==
  LET open == CHOOSE n \in 1..Len(line) : line[n] = "]"
      close == CHOOSE n \in (open + 1)..Len(line) : line[n] = "["
      raw == split(SubSeq(line, open + 1, close - 1), ",")
  IN [n \in 1..Len(raw) |-> trim(raw[n])]

\* C23: the serialized notation lists all pair tokens first, then all suited
\* tokens, then all offsuit tokens, in the string gridToRangeNotation returns
\* and inside each weight section convertFormat1ToFormat2 produces.
C23_BucketOrder ==
  /\ (op = "gridToRangeNotation" /\ ret # <<>>) => BucketOrder(split(ret, ","))
  /\ (/\ op = "POST /convert"
      /\ arg.fromFormat = "format1"
      /\ arg.toFormat = "format2"
      /\ ret.status = 200) =>
       \A n \in 1..Len(SectionLines(ret.converted)) :
         BucketOrder(TokensOfLine(SectionLines(ret.converted)[n]))

\* the weight written in the opening tag of a line "[w]...[/w]"
WeightOfLine(line) ==
  LET open == CHOOSE n \in 1..Len(line) : line[n] = "]"
  IN SubSeq(line, 2, open - 1)

\* the hands the tokens of a line cover
HandsOfLine(line) ==
  UNION {HandsOfToken(TokensOfLine(line)[k]) : k \in 1..Len(TokensOfLine(line))}

\* the hands a case gives the weight w
HandsOfWeight(case, w) == {case[n].hand : n \in {m \in 1..Len(case) : case[m].weight = w}}

\* C24: weight is part of the merge key: in the output of
\* convertFormat1ToFormat2 every token, a dash-range included, covers only
\* hands of the weight of its section, so rank-adjacent hands of different
\* weights are never merged, and every hand is reported under its own weight.
C24_WeightInMergeKey ==
  (/\ op = "POST /convert"
   /\ arg.fromFormat = "format1"
   /\ arg.toFormat = "format2"
   /\ arg.rangeText \in MixedTexts) =>
    LET case == CHOOSE c \in MixedCases : MixedText(c) = arg.rangeText
        lines == SectionLines(ret.converted)
    IN /\ \A n \in 1..Len(lines) :
            HandsOfLine(lines[n]) = HandsOfWeight(case, WeightOfLine(lines[n]))
       /\ \A n \in 1..Len(case) :
            \E m \in 1..Len(lines) :
              /\ WeightOfLine(lines[m]) = case[n].weight
              /\ case[n].hand \in HandsOfLine(lines[m])

\* a text with hands adjacent in rank under two weights was converted into
\* two sections, one of which holds a dash-range
C24_Witness ==
  /\ op = "POST /convert"
  /\ arg.fromFormat = "format1"
  /\ arg.toFormat = "format2"
  /\ arg.rangeText \in MixedTexts
  /\ Len(SectionLines(ret.converted)) = 2
  /\ \E n \in 1..Len(ret.converted) : ret.converted[n] = "-"

\* the shorthand of two cards by the cards alone: equal ranks make a pair,
\* equal suits a suited hand, anything else an offsuit hand, the higher rank
\* written first
Classified(c) ==
  LET high == IF Higher(c[1], c[3]) THEN c[1] ELSE c[3]
      low == IF Higher(c[1], c[3]) THEN c[3] ELSE c[1]
  IN IF c[1] = c[3] THEN <<c[1], c[3]>>
     ELSE IF c[2] = c[4] THEN <<high, low, "s">>
     ELSE <<high, low, "o">>

\* C25: the combo to shorthand conversion of convertFormat1ToFormat2 and of
\* gtowToFlopzilla classifies by the cards alone: equal ranks give a pair,
\* else the same suit gives a suited hand, else an offsuit hand, with the
\* higher rank first whatever the order of the cards.
C25_ClassifiesByCards ==
  /\ (/\ op = "POST /convert"
      /\ arg.fromFormat = "format1"
      /\ arg.toFormat = "format2"
      /\ \E c \in Combos : arg.rangeText = ComboWeighted(c)) =>
       LET c == SubSeq(arg.rangeText, 1, 4)
       IN ret.converted = <<"[", "1", "]">> \o Classified(c) \o <<"[", "/", "1", "]", "\n">>
  /\ (/\ op = "convertRangeFormat"
      /\ engine = "array"
      /\ arg.fromFormat = "gtow"
      /\ arg.toFormat = "flopzilla"
      /\ arg.rangeText \in Combos) =>
       ret = Classified(arg.rangeText)

\* the king written before the ace, of different suits, was converted by
\* one of the two conversions
C25_Witness ==
  \/ /\ op = "POST /convert"
     /\ arg.fromFormat = "format1"
     /\ arg.toFormat = "format2"
     /\ arg.rangeText = ComboWeighted(<<"K", "s", "A", "h">>)
     /\ ret.converted = <<"[", "1", "]", "A", "K", "o", "[", "/", "1", "]", "\n">>
  \/ /\ op = "convertRangeFormat"
     /\ engine = "array"
     /\ arg.fromFormat = "gtow"
     /\ arg.toFormat = "flopzilla"
     /\ arg.rangeText = <<"K", "s", "A", "h">>
     /\ ret = <<"A", "K", "o">>

\* the weights of the cells of the grid of the engine in use, in hundredths
WeightsNow ==
  IF engine = "keyed" THEN {grid[k].weight : k \in DOMAIN grid}
  ELSE {agrid[r][c].weight : r \in 1..13, c \in 1..13}

\* C26: after any sequence of parseRangeNotation and toggleCell calls the
\* weight of every cell lies between 0 and 1.
C26_WeightInUnitInterval ==
  (op \in {"parseRangeNotation", "toggleCell"}) =>
    \A w \in WeightsNow : 0 <= w /\ w <= 100

\* every cell of the grid of the engine in use is the cell createRangeGrid
\* made, but for its selected flag and its weight
StructureKept ==
  IF engine = "keyed"
  THEN /\ DOMAIN grid = CanonicalHands
       /\ \A k \in DOMAIN grid :
            /\ grid[k].key = createRangeGrid[k].key
            /\ grid[k].type = createRangeGrid[k].type
            /\ grid[k].combos = createRangeGrid[k].combos
            /\ grid[k].row = createRangeGrid[k].row
            /\ grid[k].col = createRangeGrid[k].col
  ELSE /\ DOMAIN agrid = 1..13
       /\ \A r \in 1..13 :
            /\ DOMAIN agrid[r] = 1..13
            /\ \A c \in 1..13 :
                 /\ agrid[r][c].hand = createRangeGridArr[r][c].hand
                 /\ agrid[r][c].type = createRangeGridArr[r][c].type
                 /\ agrid[r][c].combos = createRangeGridArr[r][c].combos

\* a toggleCell call that names no cell: a key that is no hand, or
\* coordinates outside the grid
NamesNoCell(a) ==
  IF engine = "keyed" THEN a.handKey \notin CanonicalHands
  ELSE a.row < 0 \/ a.row > 12 \/ a.col < 0 \/ a.col > 12

\* C27: after any sequence of parseRangeNotation and toggleCell calls, with
\* unknown keys and out-of-range coordinates among them, the grid has its
\* 169 cells with the key, type, combos, row and col they were made with,
\* and a call that names no cell leaves the grid as it was.
C27_StructureKept ==
  [][(op' \in {"parseRangeNotation", "toggleCell"}) =>
       /\ StructureKept'
       /\ (op' = "toggleCell" /\ NamesNoCell(arg')) => (grid' = grid /\ agrid' = agrid)
       /\ (op' = "parseRangeNotation" /\ Fresh /\ arg' = <<"X", "X">>) =>
            (grid' = grid /\ agrid' = agrid)]_vars

\* a cell of a grid that carries a selection was toggled by a key that is
\* no hand or by coordinates outside the grid
C27_Witness ==
  /\ op = "toggleCell"
  /\ NamesNoCell(arg)
  /\ SelectedNow # {}

\* C28: hand-based and coordinate-based addressing coincide: for each of the
\* 169 canonical hands h, the row and col stored in the keyed cell h, the
\* cell markHandInGrid marks for h in the array grid and the coordinates
\* handToGridCoords(h) returns are the same, and createRangeGrid has h at
\* those coordinates.
C28_AddressingCoincides ==
  (op = "handToGridCoords" /\ arg \in CanonicalHands) =>
    /\ ret.row = createRangeGrid[arg].row
    /\ ret.col = createRangeGrid[arg].col
    /\ TouchedArr(markHandInGrid(createRangeGridArr, arg)) = {<<ret.row + 1, ret.col + 1>>}
    /\ createRangeGridArr[ret.row + 1][ret.col + 1].hand = arg
    /\ \A k \in DOMAIN createRangeGrid :
         (createRangeGrid[k].row = ret.row /\ createRangeGrid[k].col = ret.col) => k = arg

\* the coordinates of an offsuit hand were asked for and lie below the
\* diagonal
C28_Witness ==
  /\ op = "handToGridCoords"
  /\ arg = <<"T", "9", "o">>
  /\ ret = [row |-> 5, col |-> 4, isPair |-> FALSE, isSuited |-> FALSE]

\* the hands the tokens of a list cover when each is expanded by expandRange
ExpandedHands(tokens) == UNION {SeqSet(expandRange(tokens[n])) : n \in 1..Len(tokens)}

\* C29: compressRange and expandRange are inverse on sets: for a list of
\* hands of one type without a hand twice, expanding each token of
\* compressRange of the list and taking the union gives exactly the hands of
\* the list.
C29_CompressExpandInverse ==
  (op = "compressRange" /\ DuplicateFree(arg)) => ExpandedHands(ret) = SeqSet(arg)

\* three pairs given low to high were compressed to a run and a single
\* pair, which expand to the three pairs
C29_Witness ==
  /\ op = "compressRange"
  /\ arg = <<<<"2", "2">>, <<"9", "9">>, <<"T", "T">>>>
  /\ Len(ret) = 2
  /\ ExpandedHands(ret) = {<<"2", "2">>, <<"9", "9">>, <<"T", "T">>}

\* the canonical, fully qualified tokens without a weight: a hand, a hand
\* with "+", a dash-range of two pairs or of two hands of one high rank and
\* one qualifier
CanonicalTokens ==
  CanonicalHands \cup {h \o <<"+">> : h \in CanonicalHands}
    \cup PairDashes \cup NonPairDashes

\* a notation string of one or more such tokens, separated by commas
CanonicalNotation(t) ==
  /\ Len(t) > 0
  /\ \A n \in 1..Len(split(t, ",")) : split(t, ",")[n] \in CanonicalTokens

\* C30: the two parsers of rangeEngine.js agree: for a notation string of
\* canonical, fully qualified tokens without weight suffixes the keyed
\* parseRangeNotation and the array parseRangeNotation select the same set
\* of hands.
C30_ParsersAgree ==
  (op = "parseRangeNotation" /\ CanonicalNotation(arg)) =>
    /\ ~parseRangeNotationArr(arg).threw
    /\ Selected(parseRangeNotation(arg, createRangeGrid))
         = SelectedArr(parseRangeNotationArr(arg).grid)
    /\ SelectedNow = Selected(parseRangeNotation(arg, createRangeGrid))

\* the array parser has parsed a plus-range and a dash-range in one string
C30_Witness ==
  /\ op = "parseRangeNotation"
  /\ engine = "array"
  /\ arg = <<"J", "J", "+", ",", "A", "K", "s", "-", "A", "J", "s">>
  /\ SelectedNow = {<<"A", "A">>, <<"K", "K">>, <<"Q", "Q">>, <<"J", "J">>,
                     <<"A", "K", "s">>, <<"A", "Q", "s">>, <<"A", "J", "s">>}

====
